---- MODULE Spec2Model ----
(***************************************************************************)
(* Model of the Buyee scraper/bid orchestrator (BuyeeScraper, five source  *)
(* copies A..E) and of the HTTP layer in app.js (two copies).              *)
(*                                                                         *)
(* Node runs a handler until its next await and then turns to another one, *)
(* so a call is a sequence of steps: one action per stretch of code that   *)
(* runs between two awaits and reads or writes the state below, and the    *)
(* steps of the calls in progress interleave.  A synchronous method is one *)
(* step.  The outcome of each awaited browser call (launch, goto, click,   *)
(* waitForNavigation, close, ...) is decided by the third-party site and   *)
(* the browser engine, so it is an input of the step that follows it:      *)
(* `failAt = k` says that the k-th awaited call of the method's try block  *)
(* rejects (0: none does).  The operators named after the methods give the *)
(* result of a call that runs with no other call in between.               *)
(***************************************************************************)
EXTENDS Integers, Sequences, FiniteSets, TLC

\* ---------------------------------------------------------------- bounds
MaxNow == 4
CookieLife == 1

\* ------------------------------------------------------ program constants
TwoFactorCodeLength == 6

\* ----------------------------------------------------------------- state
VARIABLES
  variant,      \* which copy of the BuyeeScraper class is deployed
  appVariant,   \* which copy of app.js is deployed
  now,          \* Date.now(), in abstract ticks
  loginFile,    \* login.json, the durable session
  tempFile,     \* temp_login.json, the pre-2FA session
  bidsFile,     \* ../bids.json, the bid ledger the scraper writes
  contextFiles, \* the search_context_<id>.json files
  last,          \* what the last call did and returned
  dataBidsFile,   \* ./data/bids.json, the bid ledger app.js reads
  lastActivityTimestamp,   \* lastActivityTimestamp of app.js
  serverProcess,   \* the node process: running, or how it ended
  browser,   \* this.browser of the shared scraper: none, or a launched browser still running
  batch,   \* per request slot: the position of its /update-bid-prices loop
  retryRun,   \* the retry(fn, retries) call in progress
  calls   \* the calls in progress, one slot per client: where each is and what it holds

vars == <<variant, appVariant, now, loginFile, tempFile, bidsFile, contextFiles, last, dataBidsFile, lastActivityTimestamp, serverProcess, browser, batch, retryRun, calls>>

ScraperVariants == {"A", "B", "C", "D", "E"}
AppVariants == {1, 2}

\* --------------------------------------------------------- session files
requiredCookies == {"otherbuyee", "userProfile", "userId"}

\* A cookie record of a storage-state file.  `expired` is the property
\* checkLoginState reads; the browser engine never writes it.
Cookie(n, exp, flag) == [name |-> n, expires |-> exp, expired |-> flag]

\* kinds: "missing" (no file), "malformed" (JSON.parse throws),
\*        "nocookies" (an object without a cookie list), "session"
MissingFile == [kind |-> "missing", cookies |-> {}]
MalformedFile == [kind |-> "malformed", cookies |-> {}]
NoCookiesFile == [kind |-> "nocookies", cookies |-> {}]
SessionFile(cs) == [kind |-> "session", cookies |-> cs]

\* the clock starts at InitNow, so that a file left by an earlier run can
\* hold cookies whose expiry (0) is already in the past
InitNow == 1
CookieStates == {"absent", "fresh", "stale", "flagged"}
CookieOf(n, st) ==
  CASE st = "fresh"   -> Cookie(n, InitNow + CookieLife, FALSE)
    [] st = "stale"   -> Cookie(n, 0, FALSE)
    [] st = "flagged" -> Cookie(n, InitNow + CookieLife, TRUE)
SessionOf(f) ==
  SessionFile({CookieOf(n, f[n]) : n \in {m \in requiredCookies : f[m] # "absent"}})

\* every durable-session file an earlier run (or an operator) can have left
AllSessionFiles ==
  {MissingFile, MalformedFile, NoCookiesFile}
    \cup {SessionOf(f) : f \in [requiredCookies -> CookieStates]}

\* a smaller family for the specifications that are not about cookies
FewSessionFiles ==
  {MissingFile, MalformedFile, NoCookiesFile,
   SessionOf([n \in requiredCookies |-> "fresh"]),
   SessionOf([n \in requiredCookies |-> IF n = "userId" THEN "absent" ELSE "fresh"])}

\* what context.storageState({path}) writes: the cookies the site has set in
\* the context, each with the expiry the site gave it
storageState(siteCookies, t) ==
  SessionFile({Cookie(n, t + CookieLife, FALSE) : n \in siteCookies})

\* the cookie sets the site may have set when a login attempt ends
SiteCookieSets == {{}, {"otherbuyee"}, requiredCookies}

\* ------------------------------------------------------ the call record
\* `last` describes the most recent call: its inputs, what it returned or
\* threw, and what it did to the page on the way.
Blank ==
  [op |-> "none", url |-> <<>>, amount |-> 0, code |-> <<>>, page |-> 0,
   ctxId |-> "", success |-> FALSE, threw |-> FALSE, error |-> "",
   requiresTwoFactor |-> FALSE, navs |-> <<>>, submits |-> 0,
   filled |-> FALSE, landed |-> <<>>, status |-> 0, products |-> <<>>, totalProducts |-> 0,
   waited |-> FALSE, scrapes |-> 0, noResults |-> FALSE, currentPage |-> 0,
   found |-> FALSE, fetched |-> <<>>, urls |-> <<>>,
   \* isArray: the request's productUrls is an array; hasList: the answer
   \* has updatedBids and count
   isArray |-> FALSE, hasList |-> FALSE,
   invoked |-> FALSE, bids |-> <<>>, openContexts |-> 0, openPages |-> 0,
   bidLanding |-> <<>>, cookies |-> {}, idle |-> 0,
   orphaned |-> FALSE, hasCount |-> FALSE, responses |-> 0,
   \* alone: no other call was in progress at any time during this one;
   \* loginAtCall, tempAtCall: the session files when the call began
   alone |-> TRUE,
   loginAtCall |-> [kind |-> "missing", cookies |-> {}],
   tempAtCall |-> [kind |-> "missing", cookies |-> {}]]

\* the node process: running, or ended with an exit code after the
\* shutdown steps it completed
Running == [running |-> TRUE, exitCode |-> 0, steps |-> <<>>]
Exited(code, steps) == [running |-> FALSE, exitCode |-> code, steps |-> steps]

\* search_context_<id>.json: absent, or the context object /search wrote;
\* mtime is the time of the last write
ContextIds == {"s1"}
NoContext == [exists |-> FALSE, terms |-> <<>>, currentTermIndex |-> 0,
              currentPage |-> 0, results |-> <<>>, totalResults |-> 0,
              mtime |-> 0]
NoContexts == [id \in ContextIds |-> NoContext]

\* the clients whose calls can be in progress at the same time
Requests == {"r1", "r2"}

\* a retry(fn, retries) call: none (idle), inside `await fn()` of attempt
\* i (calling), inside the awaited setTimeout (waiting), or settled
\* (returned, threw). outs: how the invocations of fn settled so far, in
\* order; waits: the timers set; value: what retry returned or threw
NoRetry ==
  [pc |-> "idle", retries |-> 0, i |-> 0, outs |-> <<>>, waits |-> 0,
   value |-> 0]

\* a /update-bid-prices request: none (idle), inside the awaited updateBid
\* of URL number i (refreshing), inside the awaited setTimeout after it
\* (delaying), or answered (done). inFlight: updateBid calls started and not
\* yet settled; elapsed: seconds since the delay began; gaps: for every
\* refresh after the first, the time between the end of the one before and
\* its start
IdleBatch ==
  [pc |-> "idle", urls |-> <<>>, i |-> 0, inFlight |-> 0, elapsed |-> 0,
   gaps |-> <<>>, updatedBids |-> <<>>, status |-> 0]

\* every request to /update-bid-prices runs a loop of its own
NoBatches == [q \in Requests |-> IdleBatch]

\* A slot holds the call of one client. op: the method or handler called;
\* pc: the await it is suspended at (idle: no call; done: settled, with
\* what it did kept in loc); args: what it was called with; loc: the locals
\* it carries over its awaits; alone: no other call has been in progress
\* since it began
NoCall ==
  [op |-> "none", pc |-> "idle", args |-> <<>>, loc |-> <<>>, alone |-> TRUE,
   loginAtCall |-> [kind |-> "missing", cookies |-> {}],
   tempAtCall |-> [kind |-> "missing", cookies |-> {}]]
NoCalls == [q \in Requests |-> NoCall]

\* ------------------------------------------------ reading session files
\* the reads with the temp file taken away afterwards
readSessionFiles_Unlinks(lf, tf) ==
  [loginFile |-> lf, tempFile |-> [kind |-> "missing", cookies |-> {}]]

\* the session files after the reads of checkLoginState (fs.readFileSync of
\* login.json) and of setupBrowser (fs.existsSync, fs.readFileSync of
\* temp_login.json and login.json), the only uses scrapeSearchResults,
\* updateBid and checkLoginState make of them
readSessionFiles(lf, tf) ==
  [loginFile |-> lf, tempFile |-> tf]

\* ------------------------------------------------------ checkLoginState
\* JSON.parse(fs.readFileSync('login.json')): throws on a missing or
\* malformed file; `loginData.cookies || []`
readLoginData(f) ==
  [ok |-> f.kind \notin {"missing", "malformed"},
   cookies |-> IF f.kind = "session" THEN f.cookies ELSE {}]

hasAllRequiredCookies(cookies) ==
  \A n \in requiredCookies : \E c \in cookies : c.name = n /\ ~c.expired

checkLoginState_NoCatch(f) ==
  LET r == readLoginData(f) IN
  IF ~r.ok THEN [ret |-> FALSE, threw |-> TRUE]
  ELSE [ret |-> hasAllRequiredCookies(r.cookies), threw |-> FALSE]

\* the whole body is inside try { } catch { return false }
checkLoginState(f) ==
  LET r == readLoginData(f) IN
  IF ~r.ok THEN [ret |-> FALSE, threw |-> FALSE]
  ELSE [ret |-> hasAllRequiredCookies(r.cookies), threw |-> FALSE]

\* ------------------------------------------------------- browser launches
\* `this.browser = await chromium.launch(...)` of login, submitTwoFactorCode
\* and (copy C) placeBid: the browser held before is not closed, it is only
\* no longer referred to. launched: the launch was reached and succeeded
launchAnew(held, launched) ==
  [browser |-> IF launched THEN "open" ELSE held,
   orphaned |-> launched /\ held = "open"]

\* ---------------------------------------------------------------- login
\* awaited calls of login's try block, in order:
\*   1 chromium.launch   2 newContext   3 newPage   4 goto(login page)
\*   5 fill, fill        6 click + waitForNavigation   7 screenshot
\*   8 storageState (temp_login.json on the 2FA page, else login.json)
\* clickRejects, for failAt = 6: it is page.click that rejects, not the
\* awaited navigationPromise
LoginSteps == 8
\* the fields a run never reads (the landing page of a run that failed
\* before it got there, ...) are kept at their defaults
LoginEnv ==
  {e \in [failAt : 0..LoginSteps, landing : {"twoFactor", "other"},
          siteCookies : SiteCookieSets, closeFails : BOOLEAN,
          clickRejects : BOOLEAN] :
     /\ e.failAt # 0 => e.landing = "other" /\ e.siteCookies = {} /\ ~e.closeFails
     /\ e.clickRejects => e.failAt = 6}

\* s.includes(m)
includes(s, m) ==
  \E i \in 1..(Len(s) - Len(m) + 1) : SubSeq(s, i, i + Len(m) - 1) = m

\* the page the browser is on after the login form was submitted
TwoFactorUrl == <<"/", "signup", "/", "twoFactor">>
MyPageUrl == <<"/", "mypage">>
postSubmitUrl(landing) == IF landing = "twoFactor" THEN TwoFactorUrl ELSE MyPageUrl

\* the statements before login's first await (chromium.launch):
\* try { if (fs.existsSync('login.json')) fs.unlinkSync('login.json') }
\* catch (e) { console.log('No existing login.json file to clear') }
\* unlinkFails: unlinkSync throws for the file that is there; the catch
\* block swallows it and login.json stays as it was
loginBegin(lf, unlinkFails) ==
  IF lf.kind # "missing" /\ unlinkFails THEN lf ELSE MissingFile

\* the session files once the awaited calls 2..8 have settled: a run that
\* got through writes temp_login.json on the 2FA page, else login.json
loginSave(env, lf, tf, t) ==
  LET \* page.url().includes('/signup/twoFactor')
      is2FA == includes(postSubmitUrl(env.landing), TwoFactorUrl)
      done  == env.failAt = 0
  IN [loginFile |-> IF done /\ ~is2FA THEN storageState(env.siteCookies, t) ELSE lf,
      tempFile  |-> IF done /\ is2FA THEN storageState(env.siteCookies, t) ELSE tf]

\* what login returns or throws, and what it did to the page on the way
loginReturn(env) ==
  LET reached(k) == env.failAt = 0 \/ env.failAt > k   \* step k succeeded
      tried(k)   == env.failAt = 0 \/ env.failAt >= k  \* step k was called
      navs     == IF tried(4) THEN <<"login">> ELSE <<>>
      pageOpen == reached(3)
      is2FA    == includes(postSubmitUrl(env.landing), TwoFactorUrl)
      done     == env.failAt = 0
      \* finally: if (page) await page.close()
      closeThrows == pageOpen /\ env.closeFails
  IN [threw   |-> ~done \/ closeThrows,
      \* const navigationPromise = page.waitForNavigation(...);
      \* await page.click('#login_submit'); await navigationPromise;
      \* a click that rejects leaves the promise without a handler; it
      \* rejects when the page is closed or its timeout runs out, and Node
      \* ends the process on the unhandled rejection (exit code 1)
      exits   |-> env.failAt = 6 /\ env.clickRejects,
      launched |-> reached(1),
      pageOpen |-> pageOpen,
      success |-> done /\ ~closeThrows /\ ~is2FA,
      requiresTwoFactor |-> done /\ ~closeThrows /\ is2FA,
      error   |-> IF ~done THEN "login step failed"
                  ELSE IF closeThrows THEN "page.close failed" ELSE "",
      navs    |-> navs,
      landed  |-> IF reached(6) THEN postSubmitUrl(env.landing) ELSE <<>>]

\* login(username, password) run, with no other call in between, against
\* the session files lf and tf at time t
login(env, unlinkFails, lf, tf, t) ==
  LET r == loginReturn(env)
      f == loginSave(env, loginBegin(lf, unlinkFails), tf, t)
  IN [threw |-> r.threw, launched |-> r.launched, success |-> r.success,
      requiresTwoFactor |-> r.requiresTwoFactor, error |-> r.error,
      navs |-> r.navs, landed |-> r.landed, exits |-> r.exits,
      loginFile |-> f.loginFile, tempFile |-> f.tempFile]

\* refreshLoginSession(): login with the stored credentials, then
\* checkLoginState (result ignored); throws when login did not succeed.
\* r: what the login returned or threw
refreshReturn(r) ==
  [threw |-> r.threw \/ ~r.success,
   error |-> IF r.threw THEN r.error
             ELSE IF ~r.success THEN "Failed to refresh login session" ELSE "",
   navs |-> r.navs, launched |-> r.launched]

refreshLoginSession(env, unlinkFails, lf, tf, t) ==
  LET l == login(env, unlinkFails, lf, tf, t)
      r == refreshReturn(l)
  IN [threw |-> r.threw, error |-> r.error, navs |-> r.navs,
      loginFile |-> l.loginFile, tempFile |-> l.tempFile,
      launched |-> r.launched, exits |-> l.exits]

\* -------------------------------------------------- submitTwoFactorCode
Code(n) == [i \in 1..n |-> i % 10]
Codes == {Code(n) : n \in (TwoFactorCodeLength - 1)..(TwoFactorCodeLength + 1)}

\* twoFactorCode.toString().split('')
digits(code) == code

\* awaited calls of submitTwoFactorCode's try block, in order:
\*   1 chromium.launch   [read temp_login.json]   2 newContext   3 newPage
\*   4 goto(challenge page)   5 screenshot   [length check]
\*   6 fill the six inputs   7 screenshot   8 waitForTimeout
\*   9 $('#error-frame').evaluate   [error visible?]
\*   10 waitForNavigation   [still on the challenge page?]
\*   11 storageState(login.json)
TwoFactorSteps == 11
TwoFactorEnv ==
  {e \in [failAt : 0..TwoFactorSteps, errorVisible : BOOLEAN,
          landing : {"twoFactor", "other"}, siteCookies : SiteCookieSets,
          closeFails : BOOLEAN] :
     /\ e.failAt # 0 => ~e.errorVisible /\ e.landing = "other"
                        /\ e.siteCookies = {} /\ ~e.closeFails
     /\ e.errorVisible => e.landing = "other" /\ e.siteCookies = {} /\ ~e.closeFails
     /\ e.landing = "twoFactor" => e.siteCookies = {} /\ ~e.closeFails}

\* readFileSync + JSON.parse of temp_login.json, right after the launch
tempReadable(tf) == tf.kind \notin {"missing", "malformed"}

\* what submitTwoFactorCode returns or throws; tempOk: the read of
\* temp_login.json succeeded
twoFactorReturn(code, env, tempOk) ==
  LET ok(k)  == env.failAt = 0 \/ env.failAt > k     \* steps 1..k succeeded
      \* the first point at which the try block throws, "" when none
      err ==
        IF ~ok(1) THEN "launch failed"
        ELSE IF ~tempOk THEN "No temporary login state found. Please log in again."
        ELSE IF ~ok(4) THEN "browser step failed"
        ELSE IF ~ok(5) THEN "browser step failed"
        ELSE IF Len(digits(code)) # TwoFactorCodeLength
          THEN "Two-factor code must be exactly 6 digits"
        ELSE IF ~ok(9) THEN "browser step failed"
        ELSE IF env.errorVisible THEN "Invalid two-factor code"
        ELSE IF ~ok(10) THEN "browser step failed"
        ELSE IF env.landing = "twoFactor" THEN "Still on 2FA page after code entry"
        ELSE IF ~ok(11) THEN "browser step failed"
        ELSE ""
      \* page.goto(challenge page) is called once steps 1..3 and the read passed
      navs == IF ok(1) /\ tempOk /\ ok(3) THEN <<"twoFactor">> ELSE <<>>
      ctxOpen == ok(1) /\ tempOk /\ ok(2)
      \* finally: page.close(), context.close()
      closeThrows == ctxOpen /\ env.closeFails
      saved == err = ""
  IN [threw   |-> ~saved \/ closeThrows,
      launched |-> ok(1),
      ctxOpen |-> ctxOpen,
      saved   |-> saved,
      success |-> saved /\ ~closeThrows,
      error   |-> IF closeThrows THEN "close failed" ELSE err,
      navs    |-> navs]

\* await context.storageState({ path: "login.json" })
twoFactorSave(env, t) == storageState(env.siteCookies, t)

\* after it: try { fs.unlinkSync('temp_login.json') } catch (e) { log }:
\* an unlink that throws is swallowed and temp_login.json stays as it was
twoFactorUnlink(tf, unlinkFails) == IF unlinkFails THEN tf ELSE MissingFile

\* submitTwoFactorCode(code) run, with no other call in between, against
\* the session files lf and tf at time t
submitTwoFactorCode(code, env, unlinkFails, lf, tf, t) ==
  LET r == twoFactorReturn(code, env, tempReadable(tf)) IN
  [threw |-> r.threw, launched |-> r.launched, success |-> r.success,
   error |-> r.error, navs |-> r.navs,
   loginFile |-> IF r.saved THEN twoFactorSave(env, t) ELSE lf,
   tempFile  |-> IF r.saved THEN twoFactorUnlink(tf, unlinkFails) ELSE tf]

\* ------------------------------------------------------------------ URLs
\* A URL is the sequence of its tokens: maximal runs of letters and digits
\* ("auction", "a1") and the single characters between them ("/", "?").
IsWord(t) == t \notin {"/", "?"}

\* /auction\/([a-z0-9]+)/i : "auction/" followed by at least one letter or
\* digit; the flag i makes "Auction" match as well
IsAuctionWord(t) == t \in {"auction", "Auction"}
auctionMatches(u) ==
  {i \in 1..(Len(u) - 2) : IsAuctionWord(u[i]) /\ u[i + 1] = "/" /\ IsWord(u[i + 2])}

\* /\/([a-z0-9]+)\?/i : "/", letters or digits, "?"
queryMatches(u) ==
  {i \in 1..(Len(u) - 2) : u[i] = "/" /\ IsWord(u[i + 1]) /\ u[i + 2] = "?"}

Leftmost(S) == CHOOSE i \in S : \A j \in S : i <= j

\* productUrl.match(/auction\/([a-z0-9]+)/i): the captured id, "" for null
auctionIdMatch(u) ==
  IF auctionMatches(u) # {} THEN u[Leftmost(auctionMatches(u)) + 2] ELSE ""

\* productUrl.match(/auction\/([a-z0-9]+)/i) || productUrl.match(/\/([a-z0-9]+)\?/i)
auctionIdMatchOrQuery(u) ==
  IF auctionMatches(u) # {} THEN u[Leftmost(auctionMatches(u)) + 2]
  ELSE IF queryMatches(u) # {} THEN u[Leftmost(queryMatches(u)) + 1]
  ELSE ""

\* product URLs a client can send
UrlAuction == <<"/", "item", "/", "Auction", "/", "a1">>
UrlQuery   == <<"/", "item", "/", "b2", "?", "k">>
UrlPlain   == <<"/", "item", "/", "c3">>
ProductUrls == {UrlAuction, UrlQuery, UrlPlain}

\* pages the site can land the browser on
BidFormUrl       == <<"/", "bid", "/", "a1">>
BidCompleteUrl   == <<"/", "bid", "/", "complete", "/", "a1">>
OrderCompleteUrl == <<"/", "order", "/", "complete", "/", "a1">>
BidConfirmUrl    == <<"/", "bid", "/", "confirm", "/", "a1">>
LoginUrl         == <<"/", "signup", "/", "login">>
OtherUrl         == <<"/", "item", "/", "a1">>
BidLandings == {BidFormUrl, LoginUrl, OtherUrl}
FinalUrls == {BidCompleteUrl, OrderCompleteUrl, BidConfirmUrl, BidFormUrl, OtherUrl}

\* the markers the code looks for
MarkBidComplete == <<"/", "bid", "/", "complete", "/">>
MarkComplete    == <<"/", "complete", "/">>
MarkBidConfirm  == <<"/", "bid", "/", "confirm">>
MarkLogin       == <<"signup", "/", "login">>
MarkBid         == <<"/", "bid", "/">>

\* ---------------------------------------------------------- bid ledger
\* ../bids.json: "missing", "malformed", "array" (a bare JSON array) or
\* "object" ({bids: [...]})
BidsFile(k, bs) == [kind |-> k, bids |-> bs]
MaxAmount == 2
Amounts == 1..MaxAmount

\* the read-modify-write of the ledger at the end of placeBid (copies D, E)
\* ok = FALSE: JSON.parse or bidFileData.bids.findIndex threw
upsertBid(file, details) ==
  IF file.kind \in {"malformed", "array"} THEN [ok |-> FALSE, file |-> file]
  ELSE
    LET bids == IF file.kind = "missing" THEN <<>> ELSE file.bids
        hits == {i \in 1..Len(bids) : bids[i].productUrl = details.productUrl}
        \* findIndex: the first record with this URL, if any
        new == IF hits # {}
                 THEN [bids EXCEPT ![Leftmost(hits)] = details]
                 ELSE Append(bids, details)
    IN [ok |-> TRUE, file |-> BidsFile("object", new)]

\* ------------------------------------------------------ placeBid, copy A
\* one pass over submitSelectors: per selector, page.$ finds nothing
\* ("absent"), the click resolves ("clicked", break), or click() rejects
\* after it activated the control ("clickedThenThrew", swallowed by catch {})
SubmitRunsA ==
  {s \in UNION {[1..n -> {"absent", "clicked", "clickedThenThrew"}] : n \in 1..3} :
     /\ \A i \in 1..(Len(s) - 1) : s[i] # "clicked"
     /\ Len(s) < 3 => s[Len(s)] = "clicked"}

Activations(s) == Cardinality({i \in 1..Len(s) : s[i] # "absent"})

\* awaited calls of the try block, in order:
\*   [URL pattern] [read login.json]  1 chromium.launch  2 newContext
\*   3 addCookies  4 newPage  5 goto(productUrl)  6 evaluate(fetches)
\*   7 goto(bidUrl)  8 evaluate(total_amount)  9 fill(price)
\*   10 evaluate(plan)  [submit loop]  11 waitForNavigation  [marker]
PlaceBidAEnv ==
  {[failAt |-> k, submit |-> <<"absent", "absent", "absent">>, finalUrl |-> OtherUrl]
     : k \in 1..10}
  \cup {[failAt |-> 11, submit |-> s, finalUrl |-> OtherUrl] : s \in SubmitRunsA}
  \cup {[failAt |-> 0, submit |-> s, finalUrl |-> BidCompleteUrl] : s \in SubmitRunsA}
  \cup {[failAt |-> 0, submit |-> <<"clicked">>, finalUrl |-> u] : u \in FinalUrls}

placeBidA(url, amount, env, lf) ==
  LET ok(k) == env.failAt = 0 \/ env.failAt > k
      tried(k) == env.failAt = 0 \/ env.failAt >= k
      loginOk == lf.kind = "session"
      err ==
        IF auctionIdMatchOrQuery(url) = "" THEN "Invalid product URL format"
        ELSE IF lf.kind \in {"missing", "malformed"} THEN "cannot read login.json"
        ELSE IF ~ok(1) THEN "browser step failed"
        ELSE IF ~ok(2) THEN "browser step failed"
        ELSE IF lf.kind = "nocookies" THEN "loginState.cookies is undefined"
        ELSE IF ~ok(11) THEN "browser step failed"
        ELSE IF ~(includes(env.finalUrl, MarkBidComplete)
                    \/ includes(env.finalUrl, MarkComplete))
          THEN "Navigation to completion page failed"
        ELSE ""
      pre == auctionIdMatchOrQuery(url) # "" /\ loginOk
  IN [threw   |-> FALSE,
      success |-> err = "",
      error   |-> err,
      navs    |-> (IF pre /\ tried(5) THEN <<"product">> ELSE <<>>)
                  \o (IF pre /\ tried(7) THEN <<"bid">> ELSE <<>>),
      filled  |-> pre /\ ok(9),
      submits |-> IF pre /\ ok(10) THEN Activations(env.submit) ELSE 0,
      \* page.url() after waitForNavigation resolved
      landed  |-> IF pre /\ ok(11) THEN env.finalUrl ELSE <<>>]

\* ------------------------------------------------------ placeBid, copy B
\* Promise.all([waitForNavigation, click('#bid_submit')]): both resolve
\* ("navigated"), the click activated the control but no navigation came
\* in time ("clickedNoNav"), or the control was never activated
\* ("notClicked"); the last two reject
SubmitOutcomes == {"navigated", "clickedNoNav", "notClicked"}

\* awaited calls of the try block, in order:
\*   1 chromium.launch  [login.json exists, parses, has cookies]
\*   2 newContext  3 newPage  [URL pattern]  4 goto(productUrl)
\*   5 goto(bidUrl)  [login redirect?]  6 waitForSelector(price)  7 fill
\*   8 waitForSelector(plan)  9 evaluate(plan)
\*   [submit: click + waitForNavigation]  [marker]
\* catchFails: the screenshot at the top of the outer catch block rejects
PlaceBidBDefault ==
  [failAt |-> 0, bidLanding |-> BidFormUrl, submit |-> "navigated",
   finalUrl |-> BidCompleteUrl, catchFails |-> FALSE]
PlaceBidBEnv ==
  {[PlaceBidBDefault EXCEPT !.failAt = k, !.catchFails = c]
     : k \in 1..9, c \in BOOLEAN}
  \cup {[PlaceBidBDefault EXCEPT !.bidLanding = l, !.catchFails = c]
     : l \in BidLandings, c \in BOOLEAN}
  \cup {[PlaceBidBDefault EXCEPT !.submit = o, !.catchFails = c]
     : o \in SubmitOutcomes, c \in BOOLEAN}
  \cup {[PlaceBidBDefault EXCEPT !.finalUrl = u, !.catchFails = c]
     : u \in FinalUrls, c \in BOOLEAN}

placeBidB(url, amount, env, lf) ==
  LET ok(k) == env.failAt = 0 \/ env.failAt > k
      tried(k) == env.failAt = 0 \/ env.failAt >= k
      loginOk == lf.kind = "session" /\ lf.cookies # {}
      idOk == auctionIdMatch(url) # ""
      expired == includes(env.bidLanding, MarkLogin)
      err ==
        IF ~ok(1) THEN "browser step failed"
        ELSE IF lf.kind = "missing" THEN "Login state not found. Please log in first."
        ELSE IF lf.kind = "malformed" THEN "cannot parse login.json"
        ELSE IF ~loginOk THEN "Invalid login state. Please log in again."
        ELSE IF ~ok(3) THEN "browser step failed"
        ELSE IF ~idOk THEN "Invalid product URL format"
        ELSE IF ~ok(5) THEN "browser step failed"
        ELSE IF expired THEN "Session expired - please log in again"
        ELSE IF ~ok(9) THEN "browser step failed"
        ELSE IF env.submit # "navigated" THEN "navigation after submit failed"
        ELSE IF ~includes(env.finalUrl, MarkBidComplete)
          THEN "Navigation to completion page failed"
        ELSE ""
      pageOpen == ok(1) /\ loginOk /\ ok(3)
      pre == pageOpen /\ idOk
  IN [\* catch: await page?.screenshot(...) is not guarded
      threw   |-> err # "" /\ pageOpen /\ env.catchFails,
      success |-> err = "",
      error   |-> IF err # "" /\ pageOpen /\ env.catchFails
                    THEN "screenshot failed" ELSE err,
      navs    |-> (IF pre /\ tried(4) THEN <<"product">> ELSE <<>>)
                  \o (IF pre /\ tried(5) THEN <<"bid">> ELSE <<>>),
      filled  |-> pre /\ ~expired /\ ok(7),
      submits |-> IF pre /\ ~expired /\ ok(9) /\ env.submit # "notClicked"
                    THEN 1 ELSE 0,
      landed  |-> IF pre /\ ~expired /\ ok(9) /\ env.submit = "navigated"
                    THEN env.finalUrl ELSE <<>>,
      \* page.url() after goto(bidUrl) resolved
      bidLanding |-> IF pre /\ ok(5) THEN env.bidLanding ELSE <<>>]

\* ------------------------------------------------------ placeBid, copy D
\* awaited calls of the try block, in order:
\*   1 chromium.launch  2 newContext({storageState: "login.json"})
\*   3 newPage  [URL pattern]  4 goto(productUrl)  5 waitForTimeout
\*   6 waitForSelector('#bidNow')  7 bidButton.click()  8 waitForTimeout
\*   9 goto(expectedBidUrl)  [login redirect?  bid page?]
\*   10 waitForSelector(price)  11 page.$(price)  12 fill
\*   [ledger upsert]
PlaceBidDDefault == [failAt |-> 0, bidLanding |-> BidFormUrl]
PlaceBidDEnv ==
  {[PlaceBidDDefault EXCEPT !.failAt = k] : k \in 1..12}
  \cup {[PlaceBidDDefault EXCEPT !.bidLanding = l] : l \in BidLandings}

placeBidD(url, amount, env, lf, bf, t) ==
  LET ok(k) == env.failAt = 0 \/ env.failAt > k
      tried(k) == env.failAt = 0 \/ env.failAt >= k
      \* newContext reads login.json itself and rejects when it cannot
      loginOk == lf.kind \notin {"missing", "malformed"}
      idOk == auctionIdMatch(url) # ""
      details == [productUrl |-> url, bidAmount |-> amount, timestamp |-> t]
      up == upsertBid(bf, details)
      err ==
        IF ~ok(1) THEN "browser step failed"
        ELSE IF ~loginOk THEN "cannot read login.json"
        ELSE IF ~ok(3) THEN "browser step failed"
        ELSE IF ~idOk THEN "Invalid product URL format"
        ELSE IF ~ok(9) THEN "browser step failed"
        ELSE IF includes(env.bidLanding, MarkLogin)
          THEN "Redirected to login page - session invalid"
        ELSE IF ~includes(env.bidLanding, MarkBid) THEN "Failed to reach bid page"
        ELSE IF ~ok(12) THEN "browser step failed"
        ELSE IF ~up.ok THEN "cannot update bids.json"
        ELSE ""
      pre == ok(1) /\ loginOk /\ ok(3) /\ idOk
      onForm == pre /\ ok(9) /\ ~includes(env.bidLanding, MarkLogin)
                  /\ includes(env.bidLanding, MarkBid)
  IN [threw   |-> FALSE,
      success |-> err = "",
      error   |-> err,
      navs    |-> (IF pre /\ tried(4) THEN <<"product">> ELSE <<>>)
                  \o (IF pre /\ tried(9) THEN <<"bid">> ELSE <<>>),
      filled  |-> onForm /\ ok(12),
      \* this copy never touches the submit control
      submits |-> 0,
      landed  |-> <<>>,
      bidsFile |-> IF err = "" THEN up.file ELSE bf]

\* ------------------------------------------------------ placeBid, copy E
\* awaited calls of the try block, in order:
\*   1 chromium.launch  2 newContext({storageState: "login.json"})
\*   3 newPage  4 goto(productUrl)  5 waitForTimeout  6 count('#bidNow')
\*   [no button: return failure]  7 evaluate(details)
\*   8 click('#bidNow') + waitForNavigation  [login redirect?]
\*   9 waitFor(price)  10 clear  11 fill  [ledger upsert]
PlaceBidEDefault == [failAt |-> 0, bidButton |-> TRUE, bidLanding |-> BidFormUrl]
PlaceBidEEnv ==
  {[PlaceBidEDefault EXCEPT !.failAt = k] : k \in 1..11}
  \cup {[PlaceBidEDefault EXCEPT !.bidButton = FALSE]}
  \cup {[PlaceBidEDefault EXCEPT !.bidLanding = l] : l \in BidLandings}

\* the text the page shows for the time remaining, stored as `timestamp`
TimeText == 0

placeBidE(url, amount, env, lf, bf) ==
  LET ok(k) == env.failAt = 0 \/ env.failAt > k
      tried(k) == env.failAt = 0 \/ env.failAt >= k
      loginOk == lf.kind \notin {"missing", "malformed"}
      details == [productUrl |-> url, bidAmount |-> amount, timestamp |-> TimeText]
      up == upsertBid(bf, details)
      err ==
        IF ~ok(1) THEN "browser step failed"
        ELSE IF ~loginOk THEN "cannot read login.json"
        ELSE IF ~ok(6) THEN "browser step failed"
        ELSE IF ~env.bidButton THEN "No Bid Now button found on the page"
        ELSE IF ~ok(8) THEN "browser step failed"
        ELSE IF includes(env.bidLanding, MarkLogin)
          THEN "Session expired - redirected to login page"
        ELSE IF ~ok(11) THEN "browser step failed"
        ELSE IF ~up.ok THEN "cannot update bids.json"
        ELSE ""
      pre == ok(1) /\ loginOk /\ ok(3)
      clicked == pre /\ ok(6) /\ env.bidButton /\ tried(8)
  IN [threw   |-> FALSE,
      success |-> err = "",
      error   |-> err,
      navs    |-> (IF pre /\ tried(4) THEN <<"product">> ELSE <<>>)
                  \o (IF clicked THEN <<"bid">> ELSE <<>>),
      filled  |-> clicked /\ ~includes(env.bidLanding, MarkLogin) /\ ok(11),
      submits |-> 0,
      landed  |-> <<>>,
      bidsFile |-> IF err = "" THEN up.file ELSE bf]

\* setupBrowser: the cookies of the context it returns. It loads
\* temp_login.json when that exists, else login.json, else (or when the
\* file does not parse) {cookies: []}; a cookie without `expires` gets one.
\* fails: launch, newContext, addCookies or context.cookies rejects
\* cookie.expires || (Date.now() / 1000 + 86400): 24 hours, in clock ticks
\* of 15 minutes
DefaultCookieLife == 96
\* the reads right after the launch: temp_login.json when it exists, else
\* login.json; the cookies of the file read
loginState(lf, tf) ==
  LET file == IF tf.kind # "missing" THEN tf ELSE lf
  IN IF file.kind = "session" THEN file.cookies ELSE {}

\* newContext, addCookies, context.cookies() with the cookies read
contextCookies(fails, stored, t) ==
  [threw |-> fails,
   cookies |-> IF fails THEN {}
               ELSE {[c EXCEPT !.expires = IF c.expires # 0 THEN c.expires
                                             ELSE t + DefaultCookieLife]
                       : c \in stored}]

setupBrowser(fails, lf, tf, t) == contextCookies(fails, loginState(lf, tf), t)

\* POST /login: the handler around scraper.login; r: what login returned
\* or threw
postLogin(hasCredentials, r) ==
  IF ~hasCredentials
    THEN [status |-> 400, success |-> FALSE, requiresTwoFactor |-> FALSE,
          error |-> "Username and password required", invoked |-> FALSE]
  ELSE IF r.threw
    THEN [status |-> 500, success |-> FALSE, requiresTwoFactor |-> FALSE,
          error |-> r.error, invoked |-> TRUE]
  \* success: true on the two-factor page as well
  ELSE [status |-> 200, success |-> TRUE,
        requiresTwoFactor |-> r.requiresTwoFactor, error |-> "", invoked |-> TRUE]

\* POST /login-two-factor: the handler around submitTwoFactorCode; a code
\* that is missing or '' is the empty text
postLoginTwoFactor(twoFactorCode, r) ==
  IF twoFactorCode = <<>>
    THEN [status |-> 400, success |-> FALSE, error |-> "Two-factor code is required",
          invoked |-> FALSE]
  ELSE IF r.threw
    THEN [status |-> 500, success |-> FALSE, error |-> r.error, invoked |-> TRUE]
  ELSE [status |-> 200, success |-> TRUE, error |-> "", invoked |-> TRUE]

\* ------------------------------------------------------ placeBid, copy C
\* for (attempt = 1; attempt <= 3 && !done; attempt++)
BidRetries == 3

\* the submit loop: one outcome per attempt; it stops at the first attempt
\* whose click and navigation both resolve, or after the last attempt
SubmitRunsC ==
  {s \in UNION {[1..n -> SubmitOutcomes] : n \in 1..BidRetries} :
     /\ \A i \in 1..(Len(s) - 1) : s[i] # "navigated"
     /\ Len(s) < BidRetries => s[Len(s)] = "navigated"}

Clicks(s) == Cardinality({i \in 1..Len(s) : s[i] # "notClicked"})

\* a refresh that logs in without 2FA and gets the full cookie set
GoodLogin ==
  [failAt |-> 0, landing |-> "other", siteCookies |-> requiredCookies,
   closeFails |-> FALSE, clickRejects |-> FALSE]

\* awaited calls of the try block, in order:
\*   [checkLoginState, refreshLoginSession, checkLoginState]
\*   1 chromium.launch  2 throw-away context  3 newContext  4 newPage
\*   5 page.route  [goto(productUrl), up to 3 attempts]  [bid button?]
\*   [click bid button + waitForNavigation, up to 3 attempts]
\*   [login redirect?]  6 waitForSelector(price)  7 evaluate(fill form)
\*   8 waitForTimeout  9 waitForSelector(submit)
\*   [click submit + waitForNavigation, up to 3 attempts]  [marker]
\* catchFails: the call of the catch block that rejects when it is made:
\*   `await context?.cookies()` ("cookies", made when the context exists),
\*   `await page?.screenshot()` ("screenshot", made when the page exists)
\* closeFails: page.close() or context.close() in the finally block rejects
CatchFailures == {"none", "cookies", "screenshot"}
PlaceBidCDefault ==
  [refresh |-> GoodLogin, failAt |-> 0, gotoFails |-> 0, bidButton |-> TRUE,
   clickFails |-> 0, bidLanding |-> BidFormUrl, submit |-> <<"navigated">>,
   finalUrl |-> BidConfirmUrl, catchFails |-> "none", closeFails |-> FALSE]
PlaceBidCEnv ==
  {[PlaceBidCDefault EXCEPT !.refresh = r] : r \in LoginEnv}
  \cup {[PlaceBidCDefault EXCEPT !.failAt = k, !.catchFails = c]
          : k \in 1..9, c \in CatchFailures}
  \cup {[PlaceBidCDefault EXCEPT !.gotoFails = n] : n \in 0..BidRetries}
  \cup {[PlaceBidCDefault EXCEPT !.bidButton = FALSE]}
  \cup {[PlaceBidCDefault EXCEPT !.clickFails = n] : n \in 0..BidRetries}
  \cup {[PlaceBidCDefault EXCEPT !.bidLanding = l] : l \in BidLandings}
  \cup {[PlaceBidCDefault EXCEPT !.submit = s] : s \in SubmitRunsC}
  \cup {[PlaceBidCDefault EXCEPT !.finalUrl = u, !.closeFails = d]
          : u \in FinalUrls, d \in BOOLEAN}

Repeat(x, n) == [i \in 1..n |-> x]
Min(a, b) == IF a < b THEN a ELSE b

\* what placeBid returns or throws. valid0: the first checkLoginState
\* held; rf: what refreshLoginSession returned or threw (read when valid0
\* does not hold); valid1: the session is valid when the launch is reached
placeBidCReturn(url, amount, env, valid0, rf, valid1) ==
  LET ok(k) == env.failAt = 0 \/ env.failAt > k
      gotoDone == env.gotoFails < BidRetries
      clickDone == env.clickFails < BidRetries
      expired == includes(env.bidLanding, MarkLogin)
      submitDone == env.submit[Len(env.submit)] = "navigated"
      err ==
        IF ~valid0 /\ rf.threw THEN rf.error
        ELSE IF ~valid1 THEN "Failed to refresh login session"
        ELSE IF ~ok(5) THEN "browser step failed"
        ELSE IF ~gotoDone THEN "navigation failed"
        ELSE IF ~env.bidButton THEN "Bid button not found with any selector"
        ELSE IF ~clickDone THEN "navigation failed"
        ELSE IF expired THEN "Redirected to login page - authentication failed"
        ELSE IF ~ok(9) THEN "browser step failed"
        ELSE IF ~submitDone THEN "navigation failed"
        ELSE IF ~includes(env.finalUrl, MarkBidConfirm)
          THEN "Bid submission completed but confirmation page not reached"
        ELSE ""
      \* `context` and `page` are assigned once newContext and newPage resolved
      ctxOpen == valid1 /\ ok(3)
      pageOpen == valid1 /\ ok(4)
      onProduct == valid1 /\ ok(5)
      onForm == onProduct /\ gotoDone /\ env.bidButton /\ clickDone /\ ~expired
      catchThrows == \/ ctxOpen /\ env.catchFails = "cookies"
                     \/ pageOpen /\ env.catchFails = "screenshot"
      \* finally: if (page) await page.close(); if (context) await context.close()
      cleanupThrows == (err # "" /\ catchThrows) \/ (ctxOpen /\ env.closeFails)
  IN [threw   |-> cleanupThrows,
      success |-> err = "" /\ ~cleanupThrows,
      error   |-> IF cleanupThrows THEN "cleanup failed" ELSE err,
      navs    |-> (IF valid0 THEN <<>> ELSE rf.navs)
                  \o (IF onProduct
                        THEN Repeat("product", Min(env.gotoFails + 1, BidRetries))
                        ELSE <<>>)
                  \o (IF onProduct /\ gotoDone /\ env.bidButton
                        THEN Repeat("bid", Min(env.clickFails + 1, BidRetries))
                        ELSE <<>>),
      filled  |-> onForm /\ ok(7),
      submits |-> IF onForm /\ ok(9) THEN Clicks(env.submit) ELSE 0,
      landed  |-> IF onForm /\ ok(9) /\ submitDone THEN env.finalUrl ELSE <<>>,
      \* the launches of this run: login's (in the refresh), then placeBid's own
      launches |-> <<~valid0 /\ rf.launched, valid1 /\ ok(1)>>]

\* placeBid(url, amount) run, with no other call in between, against the
\* session files lf and tf at time t
placeBidC(url, amount, env, unlinkFails, lf, tf, t) ==
  LET valid0 == checkLoginState(lf).ret
      rf == refreshLoginSession(env.refresh, unlinkFails, lf, tf, t)
      valid1 == valid0 \/ (~rf.threw /\ checkLoginState(rf.loginFile).ret)
      r == placeBidCReturn(url, amount, env, valid0, rf, valid1)
  IN [threw |-> r.threw, success |-> r.success, error |-> r.error,
      navs |-> r.navs, filled |-> r.filled, submits |-> r.submits,
      landed |-> r.landed, launches |-> r.launches,
      \* the process ends on the unhandled rejection of the refresh's login
      exits |-> ~valid0 /\ rf.exits,
      loginFile |-> IF valid0 THEN lf ELSE rf.loginFile,
      tempFile  |-> IF valid0 THEN tf ELSE rf.tempFile]

\* ---- placeBid of copies D and E: every browser step is an await, during
\* which other requests' handlers run; the ledger upsert at the end has no
\* await in it
\* the upsert working on the ledger as it was when the call began
ledgerRead_AtCall(atCall, atUpsert) == atCall

\* the ledger the upsert works on: fs.readFileSync(bidFilePath) is in the
\* same synchronous block as fs.writeFileSync, so it is the file as it is
\* at that moment
ledgerRead(atCall, atUpsert) == atUpsert

\* --------------------------------------------------- scrapeSearchResults
\* texts are sequences of characters; String.prototype.trim
RECURSIVE trimStart(_)
trimStart(s) == IF s # <<>> /\ Head(s) = " " THEN trimStart(Tail(s)) ELSE s
RECURSIVE trimEnd(_)
trimEnd(s) ==
  IF s # <<>> /\ s[Len(s)] = " " THEN trimEnd(SubSeq(s, 1, Len(s) - 1)) ELSE s
trim(s) == trimEnd(trimStart(s))

\* the fallback strings
PriceNotAvailable == <<"Price Not Available">>
TimeNotAvailable == <<"Time Not Available">>

\* what a selector finds: no element, or an element with its textContent
NoEl == [present |-> FALSE, text |-> <<>>]
El(text) == [present |-> TRUE, text |-> text]

\* a listing card as the page shows it: the href of its title link (<<>>
\* when the link or its href is missing), its price element, what the four
\* time selectors find, and whether evaluating the card throws
Card(h, p, ts, f) == [href |-> h, price |-> p, times |-> ts, evalFails |-> f]
RelHref == <<"/", "item", "/", "x">>
AbsHref == <<"http", ":", "/", "/", "buyee.jp", "/", "item", "/", "y">>
BaseUrl == <<"https", ":", "/", "/", "buyee.jp">>
HttpsHref == BaseUrl \o <<"/", "item", "/", "y">>

\* s.startsWith('http'), on the first token of s: the words that begin
\* with these four letters
startsWithHttp(h) == Len(h) > 0 /\ h[1] \in {"http", "https"}

\* url.startsWith("http") ? url : `https://buyee.jp${url}`
absoluteUrl(h) == IF startsWithHttp(h) THEN h ELSE BaseUrl \o h

\* the object page.evaluate returns for one card (null is dropped before)
cardPrice(el) == IF el.present THEN trim(el.text) ELSE PriceNotAvailable

\* timeElements.find(el => el && el.textContent)?.textContent.trim()
\*   || 'Time Not Available'
cardTime(els) ==
  LET hits == {i \in 1..Len(els) : els[i].present /\ els[i].text # <<>>}
      first == CHOOSE i \in hits : \A j \in hits : i <= j
  IN IF hits = {} \/ trim(els[first].text) = <<>> THEN TimeNotAvailable
     ELSE trim(els[first].text)

productData(c) ==
  [url |-> absoluteUrl(c.href),
   price |-> cardPrice(c.price),
   time_remaining |-> cardTime(c.times)]

\* for (const item of items): evaluate inside try/catch, push unless null
RECURSIVE extractProducts(_)
extractProducts(cards) ==
  IF cards = <<>> THEN <<>>
  ELSE LET c == Head(cards)
           rest == extractProducts(Tail(cards))
       IN IF c.evalFails \/ c.href = <<>> THEN rest
          ELSE <<productData(c)>> \o rest

\* the text of '.result-num': parsed with /\/\s*(\d+)/ and parseInt;
\* hasCount = FALSE when the element is absent or the text does not match
ResultNum(h, n) == [hasCount |-> h, count |-> n]
parseTotal(rn) == IF rn.hasCount THEN rn.count ELSE 0

GoodCard == Card(RelHref, El(<<" ", "x", " ">>), <<El(<<"x">>), NoEl, NoEl, NoEl>>, FALSE)
Cards ==
  {GoodCard,
   Card(AbsHref, NoEl, <<NoEl, NoEl, NoEl, NoEl>>, FALSE),
   Card(<<>>, El(<<"x">>), <<El(<<"x">>), NoEl, NoEl, NoEl>>, FALSE),
   Card(RelHref, El(<<"x">>), <<NoEl, NoEl, NoEl, NoEl>>, TRUE),
   Card(RelHref, El(<<>>), <<NoEl, El(<<>>), El(<<" ">>), El(<<"x">>)>>, FALSE),
   Card(HttpsHref, El(<<"x">>), <<NoEl, NoEl, NoEl, El(<<"x", " ">>)>>, FALSE)}
CardLists == {<<>>} \cup {<<c>> : c \in Cards} \cup {<<c, d>> : c \in Cards, d \in Cards}
ResultNums == {ResultNum(FALSE, 0), ResultNum(TRUE, 0), ResultNum(TRUE, 5)}

\* awaited calls of the try block, in order:
\*   1 setupBrowser  2 newPage  3 goto(searchUrl)  [page 1: result count,
\*   in its own try/catch]  4 $('.search-no-hits')  [marker: return empty]
\*   [waitForSelector('.itemCard'), then the alternative selectors, each
\*   in try/catch]  [per card: evaluate in try/catch]
\* found: some selector produced the item list `cards`
\* closeFails: pageInstance.close() or context.close() in finally rejects
ScrapeDefault ==
  [failAt |-> 0, resultNum |-> ResultNum(TRUE, 5), noResults |-> FALSE,
   found |-> TRUE, cards |-> <<>>, closeFails |-> FALSE]
ScrapeEnv ==
  {[ScrapeDefault EXCEPT !.failAt = k, !.closeFails = d] : k \in 1..4, d \in BOOLEAN}
  \cup {[ScrapeDefault EXCEPT !.noResults = TRUE, !.resultNum = rn, !.closeFails = d]
          : rn \in ResultNums, d \in BOOLEAN}
  \cup {[ScrapeDefault EXCEPT !.found = FALSE, !.resultNum = rn] : rn \in ResultNums}
  \cup {[ScrapeDefault EXCEPT !.cards = cs, !.resultNum = rn, !.closeFails = d]
          : cs \in CardLists, rn \in ResultNums, d \in BOOLEAN}

EmptyResult(page) == [products |-> <<>>, totalProducts |-> 0, currentPage |-> page]

scrapeSearchResults(page, env) ==
  LET ok(k) == env.failAt = 0 \/ env.failAt > k
      tried(k) == env.failAt = 0 \/ env.failAt >= k
      totalProducts == IF page = 1 THEN parseTotal(env.resultNum) ELSE 0
      products == IF env.found THEN extractProducts(env.cards) ELSE <<>>
      result ==
        IF ~ok(4) THEN EmptyResult(page)            \* catch block
        ELSE IF env.noResults THEN EmptyResult(page)
        ELSE [products |-> products,
              \* totalProducts || products.length
              totalProducts |-> IF totalProducts # 0 THEN totalProducts
                                ELSE Len(products),
              currentPage |-> page]
      \* finally: if (pageInstance) close; if (context) close -- not guarded
      ctxOpen == ok(1)
      closeThrows == ctxOpen /\ env.closeFails
  IN [threw  |-> closeThrows,
      result |-> result,
      navs   |-> IF tried(3) THEN <<"search">> ELSE <<>>,
      waited |-> ok(4) /\ ~env.noResults]

MaxPage == 2
Pages == 1..MaxPage

\* ------------------------------------------------- /search and /load-more
\* 30 * 60 * 1000 ms, in clock ticks of 15 minutes
ContextTtl == 2

\* the order in which readdir lists the context files
DirOrder == <<"s1", "s2">>
readdir(files) ==
  SelectSeq(DirOrder, LAMBDA id : id \in DOMAIN files /\ files[id].exists)

\* cleanupSearchContexts, for each listed file: stat it and unlink it when
\* older than the TTL
\* fileAge > 30 * 60 * 1000, with the mtime the stat gave
tooOld(file, t) == t - file.mtime > ContextTtl

\* try { await fs.promises.unlink(filePath) } catch (error) { log }:
\* an unlink that rejects leaves the file and the loop goes on
unlinkContext(files, id, fails) ==
  IF fails THEN files ELSE [files EXCEPT ![id] = NoContext]

\* a sweep that runs with no other request in between; unlinkFails: the
\* files whose unlink rejects
cleanupSearchContexts(files, statFailAt, unlinkFails, t) ==
  LET order == readdir(files)
      stop == IF statFailAt \in 1..Len(order) THEN statFailAt ELSE Len(order) + 1
      seen == {order[i] : i \in 1..(stop - 1)}
  IN [id \in DOMAIN files |->
        IF id \in seen /\ tooOld(files[id], t)
        THEN unlinkContext(files, id, id \in unlinkFails)[id] ELSE files[id]]

\* stat failures a handler's sweep can meet
StatFailures == 0..Cardinality(ContextIds)

\* the ids a request can carry: a context /search can create, and one that
\* never exists
RequestIds == ContextIds \cup {"zz"}
fileExists(files, id) == id \in ContextIds /\ files[id].exists
TermLists == {<<>>, <<"t1">>, <<"t1", "t2">>}

ScrapeEnvFew ==
  {[ScrapeDefault EXCEPT !.failAt = 3],
   [ScrapeDefault EXCEPT !.noResults = TRUE],
   ScrapeDefault,
   [ScrapeDefault EXCEPT !.cards = <<GoodCard>>],
   [ScrapeDefault EXCEPT !.cards = <<GoodCard>>, !.resultNum = ResultNum(FALSE, 0)],
   [ScrapeDefault EXCEPT !.cards = <<GoodCard>>, !.closeFails = TRUE]}

\* what a handler run leaves: the files, the first response sent, whether
\* the handler's promise rejected (a second response after the first)
Response ==
  [files |-> NoContexts, status |-> 0, success |-> FALSE, error |-> "",
   threw |-> FALSE, scrapes |-> 0, products |-> <<>>, totalProducts |-> 0,
   currentPage |-> 0, found |-> FALSE, fetched |-> <<>>,
   \* the calls of res.json made for the request
   responses |-> 1]

\* POST /search; sweep = the copy of app.js that calls cleanupSearchContexts
\* the handler after the sweep: files is the directory when the scrape has
\* resolved
searchBody(searchId, terms, env, files, t) ==
  LET r == scrapeSearchResults(1, env)
      ctx == [exists |-> TRUE, terms |-> terms, currentTermIndex |-> 0,
              currentPage |-> 1, results |-> r.result.products,
              totalResults |-> r.result.totalProducts, mtime |-> t]
  IN IF terms = <<>>
     THEN [Response EXCEPT !.files = files, !.status = 400,
                           !.error = "No search terms provided"]
     ELSE IF r.threw
     THEN [Response EXCEPT !.files = files, !.status = 500, !.scrapes = 1,
                           !.error = "close failed"]
     ELSE [Response EXCEPT !.files = [files EXCEPT ![searchId] = ctx],
                           !.status = 200, !.success = TRUE, !.scrapes = 1,
                           !.products = r.result.products,
                           !.totalProducts = r.result.totalProducts,
                           !.currentPage = 1]

search(sweep, searchId, terms, env, sf, unlinkFails, files0, t) ==
  searchBody(searchId, terms, env,
             IF sweep THEN cleanupSearchContexts(files0, sf, unlinkFails, t)
             ELSE files0, t)

\* the part of /load-more both copies share: scrape the next page of the
\* current term and, when it has no products and `advance` holds, page 1 of
\* the next term.  Returns the products, the cursor and whether a scrape
\* threw.
\* r1, r2: what the two scrapeSearchResults calls resolve with
nextOf(ctx, r1, r2, always) ==
  LET len == Len(ctx.terms)
      none == ~r1.threw /\ r1.result.products = <<>>
      \* copy 1: only when a next term exists; copy 2: whenever empty
      move == none /\ (always \/ ctx.currentTermIndex < len - 1)
      idx == IF move THEN ctx.currentTermIndex + 1 ELSE ctx.currentTermIndex
      second == move /\ idx < len
      fetch(i, pg, r) ==
        [term |-> i, page |-> pg, threw |-> r.threw,
         count |-> IF r.threw THEN 0 ELSE Len(r.result.products)]
  IN [threw |-> r1.threw \/ (second /\ r2.threw),
      \* the scrapeSearchResults calls made: term index, page, products
      fetched |-> <<fetch(ctx.currentTermIndex, ctx.currentPage + 1, r1)>>
                  \o IF second THEN <<fetch(idx, 1, r2)>> ELSE <<>>,
      scrapes |-> IF second THEN 2 ELSE 1,
      products |-> IF second THEN r2.result.products ELSE r1.result.products,
      currentTermIndex |-> idx,
      currentPage |-> IF move THEN 1 ELSE ctx.currentPage + 1]

\* each scrape is worked out once
nextProducts(ctx, env1, env2, always) ==
  CHOOSE n \in {nextOf(ctx, r1, r2, always) :
                  r1 \in {scrapeSearchResults(ctx.currentPage + 1, env1)},
                  r2 \in {scrapeSearchResults(1, env2)}} : TRUE

\* POST /load-more, first copy of app.js: sweep, existence check (404),
\* scrape with a fresh scraper, save, respond; the finally block calls
\* requestScraper.cleanup(), which no copy of the class defines
\* found, ctx: what existsSync and readFileSync gave after the sweep;
\* files: the directory when the scrapes have resolved
loadMoreWith1(id, found, ctx, n, files, t) ==
  LET saved == [ctx EXCEPT !.results = ctx.results \o n.products,
                           !.currentTermIndex = n.currentTermIndex,
                           !.currentPage = n.currentPage,
                           !.mtime = t]
  IN IF ~found
     THEN [Response EXCEPT !.files = files, !.status = 404,
                           !.error = "Search context not found"]
     ELSE IF ctx.currentTermIndex >= Len(ctx.terms)
     \* currentTerm.term of an undefined currentTerm throws inside the inner
     \* try; the finally block's own TypeError takes its place
     THEN [Response EXCEPT !.files = files, !.status = 500, !.found = TRUE,
                           !.error = "requestScraper.cleanup is not a function"]
     ELSE IF n.threw
     THEN [Response EXCEPT !.files = files, !.status = 500, !.found = TRUE,
                           !.scrapes = n.scrapes, !.fetched = n.fetched,
                           !.error = "requestScraper.cleanup is not a function"]
     ELSE [Response EXCEPT !.files = [files EXCEPT ![id] = saved],
                           !.status = 200, !.success = TRUE, !.found = TRUE,
                           !.scrapes = n.scrapes, !.fetched = n.fetched,
                           !.products = n.products,
                           !.totalProducts = ctx.totalResults,
                           !.currentPage = n.currentPage,
                           \* finally: cleanup() throws after res.json; the
                           \* catch block's second response throws too
                           !.threw = TRUE, !.responses = 2]

loadMoreBody1(id, found, ctx, env1, env2, files, t) ==
  CHOOSE r \in {loadMoreWith1(id, found, ctx, n, files, t) :
                  n \in {nextProducts(ctx, env1, env2, FALSE)}} : TRUE

loadMore1(id, env1, env2, sf, unlinkFails, files0, t) ==
  LET files == cleanupSearchContexts(files0, sf, unlinkFails, t)
      found == fileExists(files, id)
  IN loadMoreBody1(id, found, IF found THEN files[id] ELSE NoContext,
                   env1, env2, files, t)

\* POST /load-more, second copy of app.js: no sweep and no existence check;
\* readFileSync of a missing file throws into the catch block (500)
loadMoreWith2(id, found, ctx, n, files, t) ==
  LET saved == [ctx EXCEPT !.results = ctx.results \o n.products,
                           !.currentTermIndex = n.currentTermIndex,
                           !.currentPage = n.currentPage,
                           !.mtime = t]
  IN IF ~found
     THEN [Response EXCEPT !.files = files, !.status = 500,
                           !.error = "ENOENT"]
     ELSE IF ctx.currentTermIndex >= Len(ctx.terms)
     THEN [Response EXCEPT !.files = files, !.status = 500, !.found = TRUE,
                           !.error = "TypeError"]
     ELSE IF n.threw
     THEN [Response EXCEPT !.files = files, !.status = 500, !.found = TRUE,
                           !.scrapes = n.scrapes, !.fetched = n.fetched, !.error = "close failed"]
     ELSE IF n.currentTermIndex >= Len(ctx.terms)
     \* saved, then searchContext.terms[currentTermIndex].term throws
     THEN [Response EXCEPT !.files = [files EXCEPT ![id] = saved],
                           !.status = 500, !.found = TRUE,
                           !.scrapes = n.scrapes, !.fetched = n.fetched, !.error = "TypeError"]
     ELSE [Response EXCEPT !.files = [files EXCEPT ![id] = saved],
                           !.status = 200, !.success = TRUE, !.found = TRUE,
                           !.scrapes = n.scrapes, !.fetched = n.fetched,
                           !.products = n.products,
                           !.totalProducts = ctx.totalResults,
                           !.currentPage = n.currentPage]

loadMoreBody2(id, found, ctx, env1, env2, files, t) ==
  CHOOSE r \in {loadMoreWith2(id, found, ctx, n, files, t) :
                  n \in {nextProducts(ctx, env1, env2, TRUE)}} : TRUE

loadMore2(id, env1, env2, files, t) ==
  LET found == fileExists(files, id)
  IN loadMoreBody2(id, found, IF found THEN files[id] ELSE NoContext,
                   env1, env2, files, t)

\* the page counter is capped: no request once the context is at MaxPage
PageRoom(id) == fileExists(contextFiles, id) => contextFiles[id].currentPage < MaxPage

\* a context as a successful /search leaves it
SearchedContext(terms) ==
  [exists |-> TRUE, terms |-> terms, currentTermIndex |-> 0, currentPage |-> 1,
   results |-> scrapeSearchResults(1, [ScrapeDefault EXCEPT !.cards = <<GoodCard>>]).result.products,
   totalResults |-> 5, mtime |-> InitNow]

\* ------------------------------------------------------------- the sweep
\* a directory with two context files, each absent or written at some time
SweepIds == {"s1", "s2"}
SweepContext(m) ==
  [exists |-> TRUE, terms |-> <<"t1">>, currentTermIndex |-> 0,
   currentPage |-> 1, results |-> <<>>, totalResults |-> 0, mtime |-> m]

\* ---------------------------------------- updateBid, /update-bid-prices
\* for (const el of candidates) { try { text = await el.textContent();
\*   if (text) { value = text.trim(); break; } } catch {} }
\* a locator that finds nothing throws and is skipped like an empty text
firstText(els, sentinel) ==
  LET hits == {i \in 1..Len(els) : els[i].present /\ els[i].text # <<>>}
      first == CHOOSE i \in hits : \A j \in hits : i <= j
  IN IF hits = {} THEN sentinel ELSE trim(els[first].text)

\* awaited calls of updateBid's try block: 1 setupBrowser  2 newPage
\* 3 goto(productUrl); prices, times: what the three price locators and
\* the four time locators find; closeFails: page.close() in finally rejects
\* contextMade, for failAt = 1: setupBrowser rejected when its newContext
\* had resolved (at addCookies or context.cookies()), not before
UpdateDefault ==
  [failAt |-> 0, prices |-> <<NoEl, NoEl, NoEl>>,
   times |-> <<NoEl, NoEl, NoEl, NoEl>>, closeFails |-> FALSE,
   contextMade |-> FALSE]
UpdateEnv ==
  {[UpdateDefault EXCEPT !.failAt = 3],
   UpdateDefault,
   [UpdateDefault EXCEPT !.closeFails = TRUE],
   [UpdateDefault EXCEPT !.prices = <<NoEl, El(<<>>), El(<<"x", " ">>)>>,
                         !.times = <<NoEl, NoEl, NoEl, El(<<" ", "x">>)>>],
   [UpdateDefault EXCEPT !.prices = <<El(<<" ">>), El(<<"x">>), NoEl>>]}

\* an entry of a batch answer: the details, or {productUrl, error}
updateBid(productUrl, env) ==
  LET done == env.failAt = 0
      pageOpen == env.failAt = 0 \/ env.failAt > 2
      price == firstText(env.prices, PriceNotAvailable)
      timeRemaining == firstText(env.times, TimeNotAvailable)
  IN [threw |-> pageOpen /\ env.closeFails,
      productUrl |-> productUrl,
      failed |-> ~done,
      error |-> IF done THEN "" ELSE "browser step failed",
      \* price.trim(), timeRemaining.trim()
      price |-> IF done THEN trim(price) ELSE <<>>,
      timeRemaining |-> IF done THEN trim(timeRemaining) ELSE <<>>,
      \* finally { if (page) await page.close(); }: the context that
      \* setupBrowser created is never closed, also not by setupBrowser's
      \* catch block when a later call of it rejects; the page is, unless
      \* close rejects
      openContexts |-> IF env.failAt = 1
                         THEN (IF env.contextMade THEN 1 ELSE 0) ELSE 1,
      openPages |-> IF pageOpen /\ env.closeFails THEN 1 ELSE 0]

\* the loop body with a catch block that pushes the error alone
batchEntry_NoUrlInCatch(productUrl, env) ==
  LET r == updateBid(productUrl, env) IN
  IF r.threw
    THEN [productUrl |-> <<>>, failed |-> TRUE, error |-> "page.close failed",
          price |-> <<>>, timeRemaining |-> <<>>]
    ELSE [productUrl |-> r.productUrl, failed |-> r.failed, error |-> r.error,
          price |-> r.price, timeRemaining |-> r.timeRemaining]

\* the loop body: try { updatedBids.push(await scraper.updateBid(productUrl)) }
\* catch (error) { updatedBids.push({ productUrl, error: error.message }) }
batchEntry(productUrl, env) ==
  LET r == updateBid(productUrl, env) IN
  IF r.threw
    THEN [productUrl |-> productUrl, failed |-> TRUE, error |-> "page.close failed",
          price |-> <<>>, timeRemaining |-> <<>>]
    ELSE [productUrl |-> r.productUrl, failed |-> r.failed, error |-> r.error,
          price |-> r.price, timeRemaining |-> r.timeRemaining]

\* for (const productUrl of productUrls) { ... }
RECURSIVE updatedBids(_, _)
updatedBids(urls, envs) ==
  IF urls = <<>> THEN <<>>
  ELSE <<batchEntry(Head(urls), Head(envs))>> \o updatedBids(Tail(urls), Tail(envs))

\* POST /update-bid-prices: 400 unless productUrls is a non-empty array
updateBidPrices(isArray, urls, envs) ==
  IF ~isArray \/ urls = <<>>
  THEN \* { success: false, message }: no updatedBids, no count
       [status |-> 400, success |-> FALSE, hasList |-> FALSE,
        updatedBids |-> <<>>, count |-> 0]
  ELSE LET bids == updatedBids(urls, envs)
       IN [status |-> 200, success |-> TRUE, hasList |-> TRUE,
           updatedBids |-> bids, count |-> Len(bids)]

\* request bodies: productUrls is not an array, or a list of URLs
MaxUrls == 2
Bodies ==
  {[isArray |-> FALSE, urls |-> <<>>]}
  \cup {[isArray |-> TRUE, urls |-> u]
          : u \in UNION {[1..n -> {UrlAuction, UrlPlain}] : n \in 0..MaxUrls}}

\* the methods class BuyeeScraper defines, the same in its five copies
ClassMethods ==
  {"setupBrowser", "scrapeSearchResults", "placeBid", "retry", "updateBid",
   "login", "submitTwoFactorCode", "refreshLoginSession", "checkLoginState"}

\* POST /details: const { urls = [] } = req.body; 400 when empty; then
\* `await scraper.scrapeDetails(urls)`, a call of something that is not a
\* function unless the class defines it: the TypeError goes to the catch
postDetails(urls) ==
  IF Len(urls) = 0
    THEN [status |-> 400, success |-> FALSE, updatedDetails |-> <<>>]
  ELSE IF "scrapeDetails" \notin ClassMethods
    THEN [status |-> 500, success |-> FALSE, updatedDetails |-> <<>>]
  ELSE [status |-> 200, success |-> TRUE,
        updatedDetails |-> [i \in 1..Len(urls) |-> [productUrl |-> urls[i]]]]

\* ---- retry(fn, retries), step by step
\* the argument `retries`
MaxRetries == 4
\* how an invocation of fn settles: resolved with value v or rejected with
\* error v
FnOutcomes == [ok : BOOLEAN, v : 1..2]

\* for (let i = 0; ...): the first `await fn()`
retryBegin(retries) ==
  [NoRetry EXCEPT !.pc = "calling", !.retries = retries]

\* the catch block without `if (i === retries - 1) throw error`
afterAttempt_NoRethrow(r, out) ==
  IF out.ok
  THEN [r EXCEPT !.pc = "returned", !.value = out.v,
                 !.outs = Append(r.outs, out)]
  ELSE [r EXCEPT !.pc = "waiting", !.waits = r.waits + 1,
                 !.outs = Append(r.outs, out)]

\* fn() settled: try { return await fn(); } catch (error) {
\*   if (i === retries - 1) throw error; await new Promise(setTimeout) }
afterAttempt(r, out) ==
  IF out.ok
  THEN [r EXCEPT !.pc = "returned", !.value = out.v,
                 !.outs = Append(r.outs, out)]
  ELSE IF r.i = r.retries - 1
  THEN [r EXCEPT !.pc = "threw", !.value = out.v,
                 !.outs = Append(r.outs, out)]
  ELSE [r EXCEPT !.pc = "waiting", !.waits = r.waits + 1,
                 !.outs = Append(r.outs, out)]

\* the timer fired: i++, and the next `await fn()` while i < retries; after
\* the loop the function ends without a value
afterWait(r) ==
  IF r.i + 1 < r.retries
  THEN [r EXCEPT !.pc = "calling", !.i = r.i + 1]
  ELSE [r EXCEPT !.pc = "returned", !.i = r.i + 1, !.value = 0]

\* ---- the loop of /update-bid-prices, step by step
\* setTimeout(resolve, 2000), in seconds
RateLimitDelay == 2

\* validation, then the first iteration up to `await scraper.updateBid`
batchBegin(isArray, urls) ==
  IF ~isArray \/ urls = <<>>
  THEN [IdleBatch EXCEPT !.pc = "done", !.status = 400]
  ELSE [IdleBatch EXCEPT !.pc = "refreshing", !.urls = urls, !.i = 1,
                         !.inFlight = 1]

\* the awaited updateBid settled with `entry` pushed (by the try or by the
\* catch), without the delay: straight on to the next URL or the answer
afterRefresh_NoDelay(b, entry) ==
  IF b.i < Len(b.urls)
  THEN [b EXCEPT !.pc = "refreshing", !.i = b.i + 1,
                 !.gaps = Append(b.gaps, 0),
                 !.updatedBids = Append(b.updatedBids, entry)]
  ELSE [b EXCEPT !.pc = "done", !.status = 200, !.inFlight = 0,
                 !.updatedBids = Append(b.updatedBids, entry)]

\* the awaited updateBid settled with `entry` pushed (by the try or by the
\* catch); then `await new Promise(resolve => setTimeout(resolve, 2000))`
afterRefresh(b, entry) ==
  [b EXCEPT !.pc = "delaying", !.inFlight = b.inFlight - 1, !.elapsed = 0,
            !.updatedBids = Append(b.updatedBids, entry)]

\* the timer fired: the next iteration up to its updateBid, or res.json
afterDelay(b) ==
  IF b.i < Len(b.urls)
  THEN [b EXCEPT !.pc = "refreshing", !.i = b.i + 1,
                 !.inFlight = b.inFlight + 1,
                 !.gaps = Append(b.gaps, b.elapsed)]
  ELSE [b EXCEPT !.pc = "done", !.status = 200]

\* ------------------------------------------- POST /place-bid, GET /bids
\* values a JSON request body can hold for `amount`, and NaN
Undefined == [t |-> "undefined", n |-> 0, s |-> <<>>]
Num(n) == [t |-> "number", n |-> n, s |-> <<>>]
Str(s) == [t |-> "string", n |-> 0, s |-> s]
NaN == [t |-> "NaN", n |-> 0, s |-> <<>>]

\* Number(v) for undefined, numbers and strings of decimal digits (signs,
\* fractions, exponents and radix prefixes are not among the inputs)
DigitChars == <<"0", "1", "2", "3", "4", "5", "6", "7", "8", "9">>
RECURSIVE digitsValue(_, _)
digitsValue(s, acc) ==
  IF s = <<>> THEN Num(acc)
  ELSE IF \E d \in 1..10 : DigitChars[d] = Head(s)
    THEN digitsValue(Tail(s),
                     10 * acc + (CHOOSE d \in 1..10 : DigitChars[d] = Head(s)) - 1)
    ELSE NaN
toNumber(v) ==
  CASE v.t = "undefined" -> NaN
    [] v.t = "string" -> digitsValue(trim(v.s), 0)
    [] OTHER -> v

\* ToBoolean
truthy(v) ==
  CASE v.t = "number" -> v.n # 0
    [] v.t = "string" -> v.s # <<>>
    [] OTHER -> FALSE

\* if (!productUrl || !bidAmount || isNaN(bidAmount) || bidAmount <= 0);
\* a productId that is missing or '' is the empty text
NoProductId == <<>>
invalidBidRequest(productUrl, bidAmount) ==
  \/ productUrl = NoProductId
  \/ ~truthy(bidAmount)
  \/ toNumber(bidAmount).t = "NaN"
  \/ toNumber(bidAmount).n <= 0

\* the handler around scraper.placeBid; r is what placeBid gives when called
postPlaceBid(productUrl, bidAmount, r) ==
  IF invalidBidRequest(productUrl, bidAmount)
    THEN [status |-> 400, success |-> FALSE, invoked |-> FALSE]
  ELSE IF r.threw THEN [status |-> 500, success |-> FALSE, invoked |-> TRUE]
  ELSE IF ~r.success THEN [status |-> 400, success |-> FALSE, invoked |-> TRUE]
  ELSE [status |-> 200, success |-> TRUE, invoked |-> TRUE]

\* path.resolve(dir, rel) on path segments
RECURSIVE resolve(_, _)
resolve(dir, rel) ==
  IF rel = <<>> THEN dir
  ELSE IF Head(rel) = "." THEN resolve(dir, Tail(rel))
  ELSE IF Head(rel) = ".."
    THEN resolve(IF dir = <<>> THEN dir ELSE SubSeq(dir, 1, Len(dir) - 1), Tail(rel))
  ELSE resolve(Append(dir, Head(rel)), Tail(rel))

\* __dirname of app.js and, as app.js requires './scrapper', of the class
AppDir == <<"srv", "app">>
ScraperDir == AppDir
AppBidFilePath == resolve(AppDir, <<".", "data", "bids.json">>)
ScraperBidFilePath == resolve(ScraperDir, <<"..", "bids.json">>)

\* GET /bids: the file at app.js's bidFilePath, read and answered
getBids(scraperFile, dataFile) ==
  LET file == IF AppBidFilePath = ScraperBidFilePath THEN scraperFile ELSE dataFile
  IN IF file.kind \in {"missing", "malformed"}
       THEN [status |-> 500, bids |-> <<>>]
       ELSE [status |-> 200, bids |-> file.bids]

AmountInputs ==
  {Undefined, Num(-1), Num(0), Str(<<"a">>), Str(<<"1">>)}
    \cup {Num(n) : n \in Amounts}
MaxBids == 2
ApiBidEnv ==
  {PlaceBidEDefault, [PlaceBidEDefault EXCEPT !.failAt = 4],
   [PlaceBidEDefault EXCEPT !.bidLanding = LoginUrl]}

\* ------------------------------------------------- inactivity shutdown
\* INACTIVITY_TIMEOUT = 45 * 60 * 1000 ms, in clock ticks of 15 minutes
InactivityTimeout == 3
\* how long the idle server is watched, in ticks
MaxUptime == 6

\* what the timer callback does once the window has passed, and the
\* SIGTERM handler whenever the signal arrives:
\* clearInterval; scraper.cleanup().then(() => server.close(() =>
\* process.exit(0))).catch(() => process.exit(1)). Calling a method the
\* class does not define throws a TypeError out of the callback, which
\* ends the process as an uncaught exception (exit code 1).
shutdown(cleanupRejects) ==
  IF "cleanup" \notin ClassMethods THEN Exited(1, <<>>)
  ELSE IF cleanupRejects THEN Exited(1, <<>>)
  ELSE Exited(0, <<"closeBrowser", "closeServer">>)

\* the routes of app.js; the activity middleware runs for each of them
Routes ==
  {"POST /place-bid", "POST /search", "POST /load-more", "POST /details",
   "GET /bids", "POST /login", "POST /update-bid-prices", "POST /login-two-factor"}

\* ------------------------------------------------------ calls in progress
InProgress(q) == calls[q].pc \notin {"idle", "done"}

\* the slots are interchangeable: the second one is taken only while the
\* first is busy
CanBegin(q) ==
  /\ serverProcess.running
  /\ ~InProgress(q) /\ (q = "r1" \/ InProgress("r1"))

\* the specifications of a single client's calls use the first slot only
OneClient == {"r1"}

\* a call begins in slot q and runs up to its first await; the session
\* files it found are kept for as long as it is the only call in progress,
\* and what is kept of the calls that have settled is dropped
Begin(q, op, pc, args, loc) ==
  calls' = [p \in Requests |->
              IF p = q
                THEN IF \A o \in Requests \ {q} : ~InProgress(o)
                       THEN [NoCall EXCEPT !.op = op, !.pc = pc, !.args = args,
                                           !.loc = loc, !.loginAtCall = loginFile,
                                           !.tempAtCall = tempFile]
                       ELSE [NoCall EXCEPT !.op = op, !.pc = pc, !.args = args,
                                           !.loc = loc, !.alone = FALSE]
              ELSE IF InProgress(p) THEN [calls[p] EXCEPT !.alone = FALSE,
                                            !.loginAtCall = NoCall.loginAtCall,
                                            !.tempAtCall = NoCall.tempAtCall]
              ELSE NoCall]

\* the call in slot q goes on to its next await
\* the call in slot q goes on to its next await; no call goes on once the
\* process has ended
Goto(q, pc, loc) ==
  /\ serverProcess.running
  /\ calls' = [calls EXCEPT ![q].pc = pc, ![q].loc = loc]

\* the call in slot q has returned or thrown
Settle(q) ==
  /\ serverProcess.running
  /\ calls' = [calls EXCEPT ![q] = NoCall]

\* the same, with a summary of it kept until the next call begins
Keep(q, summary) ==
  /\ serverProcess.running
  /\ calls' = [calls EXCEPT ![q].pc = "done", ![q].loc = summary]

\* a step inside a call: nothing is returned yet
Step(what) == [Blank EXCEPT !.op = what]

\* the session files as the call in slot q found them, and whether it ran
\* alone
Framed(q, rec) ==
  [rec EXCEPT !.alone = calls[q].alone,
              !.loginAtCall = calls[q].loginAtCall,
              !.tempAtCall = calls[q].tempAtCall]

\* app.use((req, res, next) => { lastActivityTimestamp = Date.now(); next(); })
\* of the first copy of app.js; the second copy has no such middleware
activity(app, t, stamp) == IF app = 1 THEN t ELSE stamp

Tick ==
  /\ now < MaxNow
  /\ now' = now + 1
  /\ last' = Blank   \* no call is under observation while time passes
  /\ UNCHANGED <<variant, appVariant, loginFile, tempFile, bidsFile, contextFiles, dataBidsFile, lastActivityTimestamp, serverProcess, browser, batch, retryRun, calls>>

\* ------------------------------------------------------ session actions
InitSessionOf(files) ==
  /\ variant = "A"
  /\ appVariant = 1
  /\ now = InitNow
  /\ loginFile \in files
  /\ tempFile = MissingFile
  /\ bidsFile = BidsFile("missing", <<>>)
  /\ contextFiles = NoContexts
  /\ last = Blank
  /\ dataBidsFile = BidsFile("missing", <<>>)
  /\ lastActivityTimestamp = InitNow
  /\ serverProcess = Running
  /\ browser = "none"
  /\ batch = NoBatches
  /\ retryRun = NoRetry
  /\ calls = NoCalls

InitSession == InitSessionOf(FewSessionFiles)

\* the method has no await in it: one step
CallCheckLoginState ==
  LET r == checkLoginState(loginFile) IN
  /\ serverProcess.running
  /\ last' = [Blank EXCEPT !.op = "checkLoginState", !.success = r.ret,
                           !.threw = r.threw]
  /\ loginFile' = readSessionFiles(loginFile, tempFile).loginFile
  /\ tempFile' = readSessionFiles(loginFile, tempFile).tempFile
  /\ UNCHANGED <<variant, appVariant, now, bidsFile, contextFiles, dataBidsFile, lastActivityTimestamp, serverProcess, browser, batch, retryRun, calls>>

\* checkLoginState against every session file there can be, over time
InitCheck == InitSessionOf(AllSessionFiles)

SpecCheck == InitCheck /\ [][Tick \/ CallCheckLoginState]_vars

BidCall(url, amount, r) ==
  [Blank EXCEPT !.op = "placeBid", !.url = url, !.amount = amount,
                !.success = r.success, !.threw = r.threw, !.error = r.error,
                !.navs = r.navs, !.filled = r.filled, !.submits = r.submits,
                !.landed = r.landed]

\* ---- login, refreshLoginSession and (copy C) placeBid, which run login
\* what the call keeps over its awaits: the outcomes of the awaited calls
\* behind it that its return value depends on
Kept(env) == [env EXCEPT !.siteCookies = {}]
LoginLoc == [env |-> Kept(GoodLogin)]
LaunchFailed == [GoodLogin EXCEPT !.failAt = 1, !.siteCookies = {}]
NoRefresh == [threw |-> FALSE, error |-> "", navs |-> <<>>, launched |-> FALSE]

\* placeBid of copy C after `await this.refreshLoginSession()`: the second
\* checkLoginState, then on to its own chromium.launch; r: what login
\* returned or threw
BidCRefreshed(q, r, orph) ==
  LET c == calls[q]
      rf == refreshReturn(r)
      valid1 == ~rf.threw /\ checkLoginState(loginFile).ret
  IN IF valid1
       THEN /\ Goto(q, "bid launching", [c.loc EXCEPT !.rf = rf])
            /\ last' = [Step("session refreshed") EXCEPT !.orphaned = orph]
       ELSE /\ Settle(q)
            /\ last' = [BidCall(c.args.url, c.args.amount,
                                placeBidCReturn(c.args.url, c.args.amount,
                                                PlaceBidCDefault, FALSE, rf, FALSE))
                          EXCEPT !.orphaned = orph]

\* login has returned or thrown r; orph: its launch left a browser behind
LoginDone(q, r, orph) ==
  CASE calls[q].op = "login" ->
         /\ Settle(q)
         /\ last' = Framed(q, [Blank EXCEPT !.op = "login", !.success = r.success,
                                 !.threw = r.threw, !.error = r.error,
                                 !.requiresTwoFactor = r.requiresTwoFactor,
                                 !.navs = r.navs, !.landed = r.landed,
                                 !.orphaned = orph])
    [] calls[q].op = "refreshLoginSession" ->
         /\ Settle(q)
         /\ last' = Framed(q, [Blank EXCEPT !.op = "refreshLoginSession",
                                 !.success = ~refreshReturn(r).threw,
                                 !.threw = refreshReturn(r).threw,
                                 !.error = refreshReturn(r).error,
                                 !.navs = refreshReturn(r).navs,
                                 !.orphaned = orph])
    [] calls[q].op = "POST /login" ->
         /\ Settle(q)
         /\ last' = Framed(q, [Blank EXCEPT !.op = "POST /login",
                                 !.status = postLogin(TRUE, r).status,
                                 !.success = postLogin(TRUE, r).success,
                                 !.requiresTwoFactor = postLogin(TRUE, r).requiresTwoFactor,
                                 !.error = postLogin(TRUE, r).error,
                                 !.invoked = TRUE,
                                 !.navs = r.navs, !.landed = r.landed,
                                 !.orphaned = orph])
    [] calls[q].op = "placeBid" -> BidCRefreshed(q, r, orph)

\* login(username, password), up to `await chromium.launch`
LoginBegin(q) ==
  /\ CanBegin(q)
  /\ Begin(q, "login", "login launching", <<>>, LoginLoc)
  /\ \E unlinkFails \in BOOLEAN : loginFile' = loginBegin(loginFile, unlinkFails)
  /\ last' = Step("login begins")
  /\ UNCHANGED <<variant, appVariant, now, tempFile, bidsFile, contextFiles, dataBidsFile, lastActivityTimestamp, serverProcess, browser, batch, retryRun>>

\* POST /login, up to the same await: the middleware, then 400 when the
\* username or the password is missing
PostLoginBegin(q) ==
  /\ CanBegin(q)
  /\ lastActivityTimestamp' = activity(appVariant, now, lastActivityTimestamp)
  /\ \E hasCredentials \in BOOLEAN :
       LET h == postLogin(hasCredentials, [threw |-> FALSE, requiresTwoFactor |-> FALSE]) IN
       IF ~h.invoked
         THEN /\ last' = [Blank EXCEPT !.op = "POST /login", !.status = h.status,
                                       !.success = h.success, !.error = h.error,
                                       !.loginAtCall = loginFile,
                                       !.tempAtCall = tempFile]
              /\ UNCHANGED <<calls, loginFile>>
         ELSE /\ Begin(q, "POST /login", "login launching", <<>>, LoginLoc)
              /\ \E unlinkFails \in BOOLEAN :
                   loginFile' = loginBegin(loginFile, unlinkFails)
              /\ last' = Step("POST /login begins")
  /\ UNCHANGED <<variant, appVariant, now, tempFile, bidsFile, contextFiles, dataBidsFile, serverProcess, browser, batch, retryRun>>

\* refreshLoginSession(), up to the same await inside login
RefreshBegin(q) ==
  /\ CanBegin(q)
  /\ Begin(q, "refreshLoginSession", "login launching", <<>>, LoginLoc)
  /\ \E unlinkFails \in BOOLEAN : loginFile' = loginBegin(loginFile, unlinkFails)
  /\ last' = Step("refreshLoginSession begins")
  /\ UNCHANGED <<variant, appVariant, now, tempFile, bidsFile, contextFiles, dataBidsFile, lastActivityTimestamp, serverProcess, browser, batch, retryRun>>

\* the launch settled: this.browser = <the new browser>, or the catch block
LoginLaunched(q) ==
  /\ calls[q].pc = "login launching"
  /\ \E launched \in BOOLEAN :
       LET b == launchAnew(browser, launched) IN
       /\ browser' = b.browser
       /\ IF launched
            THEN /\ Goto(q, "login authenticating", calls[q].loc)
                 /\ last' = [Step("login launched") EXCEPT !.orphaned = b.orphaned]
            ELSE LoginDone(q, loginReturn(LaunchFailed), FALSE)
  /\ UNCHANGED <<variant, appVariant, now, loginFile, tempFile, bidsFile, contextFiles, dataBidsFile, lastActivityTimestamp, serverProcess, batch, retryRun>>

\* the awaited calls 2..8 settled: a run that got through has written its
\* session file and awaits page.close(); one that failed throws.  After a
\* click that rejected the navigation promise rejects unhandled and the
\* process ends, when login has thrown (the page closed in its finally
\* block) or before (the promise's timeout ran out first)
LoginSave(q) ==
  /\ calls[q].pc = "login authenticating"
  /\ \E env \in LoginEnv :
       /\ env.failAt # 1 /\ ~env.closeFails
       /\ loginFile' = loginSave(env, loginFile, tempFile, now).loginFile
       /\ tempFile' = loginSave(env, loginFile, tempFile, now).tempFile
       /\ serverProcess' = IF loginReturn(env).exits THEN Exited(1, <<>>)
                            ELSE serverProcess
       /\ IF env.failAt = 0
            THEN /\ Goto(q, "login closing", [calls[q].loc EXCEPT !.env = Kept(env)])
                 /\ last' = Step("login saved")
            ELSE \/ LoginDone(q, loginReturn(env), FALSE)
                 \/ /\ loginReturn(env).exits
                    /\ calls' = calls
                    /\ last' = Step("process ends")
  /\ UNCHANGED <<variant, appVariant, now, bidsFile, contextFiles, dataBidsFile, lastActivityTimestamp, browser, batch, retryRun>>

\* finally { if (page) await page.close() } settled: return or throw
LoginEnd(q) ==
  /\ calls[q].pc = "login closing"
  /\ \E closeFails \in BOOLEAN :
       LoginDone(q, loginReturn([calls[q].loc.env EXCEPT !.closeFails = closeFails]),
                 FALSE)
  /\ UNCHANGED <<variant, appVariant, now, loginFile, tempFile, bidsFile, contextFiles, dataBidsFile, lastActivityTimestamp, serverProcess, browser, batch, retryRun>>

LoginBy(Q) ==
  \E q \in Q :
    LoginBegin(q) \/ LoginLaunched(q) \/ LoginSave(q) \/ LoginEnd(q)

CallLogin == LoginBy(Requests)

\* the call goes on in the steps of login
CallRefreshLoginSession == \E q \in Requests : RefreshBegin(q)

\* the handler goes on in the steps of login
PostLogin == \E q \in Requests : PostLoginBegin(q)

\* ---- submitTwoFactorCode and POST /login-two-factor
TwoFactorDefault ==
  [failAt |-> 0, errorVisible |-> FALSE, landing |-> "other",
   siteCookies |-> {}, closeFails |-> FALSE]
TwoFactorLoc == [env |-> TwoFactorDefault]

\* submitTwoFactorCode has returned or thrown r
TwoFactorDone(q, r, orph) ==
  LET code == calls[q].args.code
      h == postLoginTwoFactor(code, r)
  IN /\ Settle(q)
     /\ last' =
          IF calls[q].op = "submitTwoFactorCode"
            THEN Framed(q, [Blank EXCEPT !.op = "submitTwoFactorCode", !.code = code,
                              !.success = r.success, !.threw = r.threw,
                              !.error = r.error, !.navs = r.navs,
                              !.orphaned = orph])
            ELSE Framed(q, [Blank EXCEPT !.op = "POST /login-two-factor", !.code = code,
                              !.status = h.status, !.success = h.success,
                              !.error = h.error, !.invoked = h.invoked,
                              !.navs = r.navs, !.orphaned = orph])

\* submitTwoFactorCode(code), up to `await chromium.launch`
TwoFactorBegin(q) ==
  /\ CanBegin(q)
  /\ \E code \in Codes :
       Begin(q, "submitTwoFactorCode", "2fa launching", [code |-> code], TwoFactorLoc)
  /\ last' = Step("submitTwoFactorCode begins")
  /\ UNCHANGED <<variant, appVariant, now, loginFile, tempFile, bidsFile, contextFiles, dataBidsFile, lastActivityTimestamp, serverProcess, browser, batch, retryRun>>

\* the handler, up to the same await: the middleware, then 400 for a code
\* that is missing or ''
PostLoginTwoFactorBegin(q) ==
  /\ CanBegin(q)
  /\ lastActivityTimestamp' = activity(appVariant, now, lastActivityTimestamp)
  /\ \E code \in Codes \cup {<<>>} :
       LET h == postLoginTwoFactor(code, [threw |-> FALSE, error |-> ""]) IN
       IF ~h.invoked
         THEN /\ last' = [Blank EXCEPT !.op = "POST /login-two-factor", !.code = code,
                                       !.status = h.status, !.success = h.success,
                                       !.error = h.error, !.invoked = h.invoked,
                                       !.loginAtCall = loginFile,
                                       !.tempAtCall = tempFile]
              /\ UNCHANGED calls
         ELSE /\ Begin(q, "POST /login-two-factor", "2fa launching",
                       [code |-> code], TwoFactorLoc)
              /\ last' = Step("POST /login-two-factor begins")
  /\ UNCHANGED <<variant, appVariant, now, loginFile, tempFile, bidsFile, contextFiles, dataBidsFile, serverProcess, browser, batch, retryRun>>

\* the launch settled: this.browser = <the new browser>, then
\* JSON.parse(fs.readFileSync('temp_login.json'))
TwoFactorLaunched(q) ==
  /\ calls[q].pc = "2fa launching"
  /\ \E launched \in BOOLEAN :
       LET b == launchAnew(browser, launched) IN
       /\ browser' = b.browser
       /\ IF launched /\ tempReadable(tempFile)
            THEN /\ Goto(q, "2fa verifying", calls[q].loc)
                 /\ last' = [Step("2fa launched") EXCEPT !.orphaned = b.orphaned]
            ELSE TwoFactorDone(q,
                   twoFactorReturn(calls[q].args.code,
                                   [TwoFactorDefault EXCEPT
                                      !.failAt = IF launched THEN 0 ELSE 1],
                                   tempReadable(tempFile)),
                   b.orphaned)
  /\ UNCHANGED <<variant, appVariant, now, loginFile, tempFile, bidsFile, contextFiles, dataBidsFile, lastActivityTimestamp, serverProcess, batch, retryRun>>

\* the awaited calls 2..11 settled: a run that got through has written
\* login.json
TwoFactorSave(q) ==
  /\ calls[q].pc = "2fa verifying"
  /\ \E env \in TwoFactorEnv :
       LET r == twoFactorReturn(calls[q].args.code, env, TRUE) IN
       /\ env.failAt # 1 /\ ~env.closeFails
       /\ IF r.saved
            THEN /\ loginFile' = twoFactorSave(env, now)
                 /\ Goto(q, "2fa unlinking", [calls[q].loc EXCEPT !.env = Kept(env)])
                 /\ last' = Step("2fa saved")
            ELSE /\ loginFile' = loginFile
                 /\ TwoFactorDone(q, r, FALSE)
  /\ UNCHANGED <<variant, appVariant, now, tempFile, bidsFile, contextFiles, dataBidsFile, lastActivityTimestamp, serverProcess, browser, batch, retryRun>>

\* storageState resolved: unlink temp_login.json, then the finally block
TwoFactorUnlink(q) ==
  /\ calls[q].pc = "2fa unlinking"
  /\ \E unlinkFails \in BOOLEAN : tempFile' = twoFactorUnlink(tempFile, unlinkFails)
  /\ Goto(q, "2fa closing", calls[q].loc)
  /\ last' = Step("2fa unlinked")
  /\ UNCHANGED <<variant, appVariant, now, loginFile, bidsFile, contextFiles, dataBidsFile, lastActivityTimestamp, serverProcess, browser, batch, retryRun>>

\* page.close() and context.close() settled: return or throw
TwoFactorEnd(q) ==
  /\ calls[q].pc = "2fa closing"
  /\ \E closeFails \in BOOLEAN :
       TwoFactorDone(q, twoFactorReturn(calls[q].args.code,
                                        [calls[q].loc.env EXCEPT !.closeFails = closeFails],
                                        TRUE),
                     FALSE)
  /\ UNCHANGED <<variant, appVariant, now, loginFile, tempFile, bidsFile, contextFiles, dataBidsFile, lastActivityTimestamp, serverProcess, browser, batch, retryRun>>

TwoFactorRun(q) ==
  TwoFactorLaunched(q) \/ TwoFactorSave(q) \/ TwoFactorUnlink(q) \/ TwoFactorEnd(q)

CallSubmitTwoFactorCode ==
  \E q \in Requests : TwoFactorBegin(q) \/ TwoFactorRun(q)

PostLoginTwoFactor ==
  \E q \in Requests : PostLoginTwoFactorBegin(q) \/ TwoFactorRun(q)

NextSession ==
  Tick \/ CallCheckLoginState \/ CallLogin \/ CallRefreshLoginSession
    \/ CallSubmitTwoFactorCode

SpecSession == InitSession /\ [][NextSession]_vars

\* login next to checkLoginState
SpecLoginSteps == InitSession /\ [][CallLogin \/ CallCheckLoginState]_vars

\* ---- setupBrowser: a call on the shared scraper that needs a browser
\* what setupBrowser keeps of the session files it read: the call of the
\* method itself returns the cookies, the other callers only use the context
Stored(op, loc) ==
  IF op = "setupBrowser" THEN [stored |-> loginState(loginFile, tempFile)] ELSE loc

\* if (!this.browser || !this.browser.isConnected()): with a browser held
\* the session files are read at once, else after `await chromium.launch`
SetupTest(q, op, loc, move(_, _, _)) ==
  IF browser = "none"
    THEN /\ move(q, "setup launching", loc)
         /\ UNCHANGED <<loginFile, tempFile>>
    ELSE /\ move(q, "in browser", Stored(op, loc))
         /\ loginFile' = readSessionFiles(loginFile, tempFile).loginFile
         /\ tempFile' = readSessionFiles(loginFile, tempFile).tempFile

\* a call that begins with setupBrowser
BeginViaSetup(q, op, args, loc) ==
  LET move(p, pc, l) == Begin(p, op, pc, args, l) IN SetupTest(q, op, loc, move)

\* a call in progress that comes to setupBrowser
GotoViaSetup(q, loc) == SetupTest(q, calls[q].op, loc, Goto)

\* the launch settled: this.browser = <the new browser>, whatever another
\* call has assigned meanwhile, then the session files are read; a launch
\* that failed leaves the call without a browser
SetupLaunched(q) ==
  /\ calls[q].pc = "setup launching"
  /\ \E launched \in BOOLEAN :
       LET b == launchAnew(browser, launched) IN
       /\ browser' = b.browser
       /\ last' = [Step("setupBrowser launched") EXCEPT !.orphaned = b.orphaned]
       /\ IF launched
            THEN /\ Goto(q, "in browser", Stored(calls[q].op, calls[q].loc))
                 /\ loginFile' = readSessionFiles(loginFile, tempFile).loginFile
                 /\ tempFile' = readSessionFiles(loginFile, tempFile).tempFile
            ELSE /\ Goto(q, "no browser", calls[q].loc)
                 /\ UNCHANGED <<loginFile, tempFile>>
  /\ UNCHANGED <<variant, appVariant, now, bidsFile, contextFiles, dataBidsFile, lastActivityTimestamp, serverProcess, batch, retryRun>>

\* the awaited calls behind the launch. env.failAt = 1: setupBrowser
\* rejects, which a failed launch makes it do; with a browser it does when
\* newContext, addCookies or context.cookies() rejects
AfterLaunch(q, env) ==
  /\ calls[q].pc \in {"in browser", "no browser"}
  /\ calls[q].pc = "no browser" => env.failAt = 1

SetupBrowserBegin(q) ==
  /\ CanBegin(q)
  /\ BeginViaSetup(q, "setupBrowser", <<>>, [stored |-> {}])
  /\ last' = Step("setupBrowser begins")
  /\ UNCHANGED <<variant, appVariant, now, bidsFile, contextFiles, dataBidsFile, lastActivityTimestamp, serverProcess, browser, batch, retryRun>>

\* newContext, addCookies and context.cookies() settled
SetupBrowserEnd(q) ==
  /\ calls[q].op = "setupBrowser"
  /\ calls[q].pc \in {"in browser", "no browser"}
  /\ \E fails \in BOOLEAN :
       LET r == contextCookies(fails, calls[q].loc.stored, now) IN
       /\ fails \/ calls[q].pc = "in browser"
       /\ last' = [Blank EXCEPT !.op = "setupBrowser", !.threw = r.threw,
                                !.cookies = r.cookies, !.alone = calls[q].alone]
  /\ Settle(q)
  /\ UNCHANGED <<variant, appVariant, now, loginFile, tempFile, bidsFile, contextFiles, dataBidsFile, lastActivityTimestamp, serverProcess, browser, batch, retryRun>>

CallSetupBrowserBy(Q) ==
  \E q \in Q : SetupBrowserBegin(q) \/ SetupLaunched(q) \/ SetupBrowserEnd(q)
CallSetupBrowser == CallSetupBrowserBy(Requests)

\* the two login endpoints on a server that starts without session files
InitTwoFactorApi ==
  /\ variant = "A"
  /\ appVariant = 1
  /\ now = InitNow
  /\ loginFile = MissingFile
  /\ tempFile = MissingFile
  /\ bidsFile = BidsFile("missing", <<>>)
  /\ contextFiles = NoContexts
  /\ last = Blank
  /\ dataBidsFile = BidsFile("missing", <<>>)
  /\ lastActivityTimestamp = InitNow
  /\ serverProcess = Running
  /\ browser = "none"
  /\ batch = NoBatches
  /\ retryRun = NoRetry
  /\ calls = NoCalls

SpecTwoFactorApi ==
  InitTwoFactorApi
    /\ [][CallLogin \/ PostLogin \/ PostLoginTwoFactor \/ CallSetupBrowser]_vars

\* -------------------------------------------------------- placeBid calls
InitBidOf(variants) ==
  /\ variant \in variants
  /\ appVariant = 1
  /\ now = InitNow
  /\ loginFile \in FewSessionFiles
  /\ tempFile = MissingFile
  /\ bidsFile \in {BidsFile("missing", <<>>), BidsFile("malformed", <<>>),
                   BidsFile("array", <<>>)}
  /\ contextFiles = NoContexts
  /\ last = Blank
  /\ dataBidsFile = BidsFile("missing", <<>>)
  /\ lastActivityTimestamp = InitNow
  /\ serverProcess = Running
  /\ browser = "none"
  /\ batch = NoBatches
  /\ retryRun = NoRetry
  /\ calls = NoCalls

InitBidA == InitBidOf({"A"})
InitBidB == InitBidOf({"B"})
InitBidC == InitBidOf({"C"})
InitBidD == InitBidOf({"D"})
InitBidE == InitBidOf({"E"})

BidBegins(url, amount) ==
  [Blank EXCEPT !.op = "placeBid begins", !.url = url, !.amount = amount]

\* ---- copy A: the URL test and readFileSync('login.json') come before the
\* first await (chromium.launch into a local variable)
PlaceBidAFirst ==
  [failAt |-> 1, submit |-> <<"absent", "absent", "absent">>, finalUrl |-> OtherUrl]

BidABegin(q) ==
  /\ CanBegin(q)
  /\ variant = "A"
  /\ \E url \in ProductUrls, amount \in Amounts :
       IF auctionIdMatchOrQuery(url) = "" \/ loginFile.kind \in {"missing", "malformed"}
         THEN /\ last' = BidCall(url, amount,
                                 placeBidA(url, amount, PlaceBidAFirst, loginFile))
              /\ UNCHANGED calls
         ELSE /\ Begin(q, "placeBid", "bidding", [url |-> url, amount |-> amount],
                       [lf |-> loginFile])
              /\ last' = BidBegins(url, amount)
  /\ UNCHANGED <<variant, appVariant, now, loginFile, tempFile, bidsFile, contextFiles, dataBidsFile, lastActivityTimestamp, serverProcess, browser, batch, retryRun>>

BidAEnd(q) ==
  /\ calls[q].pc = "bidding" /\ variant = "A"
  /\ \E env \in PlaceBidAEnv :
       last' = BidCall(calls[q].args.url, calls[q].args.amount,
                       placeBidA(calls[q].args.url, calls[q].args.amount, env,
                                 calls[q].loc.lf))
  /\ Settle(q)
  /\ UNCHANGED <<variant, appVariant, now, loginFile, tempFile, bidsFile, contextFiles, dataBidsFile, lastActivityTimestamp, serverProcess, browser, batch, retryRun>>

PlaceBidABy(Q) == \E q \in Q : BidABegin(q) \/ BidAEnd(q)
PlaceBidA == PlaceBidABy(Requests)

\* ---- copy B: login.json is read once the local launch has resolved
BidBCall(url, amount, r) ==
  [BidCall(url, amount, r) EXCEPT !.bidLanding = r.bidLanding]

BidBBegin(q) ==
  /\ CanBegin(q)
  /\ variant = "B"
  /\ \E url \in ProductUrls, amount \in Amounts :
       /\ Begin(q, "placeBid", "bid launching", [url |-> url, amount |-> amount],
                [lf |-> MissingFile])
       /\ last' = BidBegins(url, amount)
  /\ UNCHANGED <<variant, appVariant, now, loginFile, tempFile, bidsFile, contextFiles, dataBidsFile, lastActivityTimestamp, serverProcess, browser, batch, retryRun>>

\* existsSync, readFileSync and JSON.parse of login.json
BidBRead(q) ==
  /\ calls[q].pc = "bid launching" /\ variant = "B"
  /\ \E launched \in BOOLEAN :
       IF launched /\ loginFile.kind = "session" /\ loginFile.cookies # {}
         THEN /\ Goto(q, "bidding", [lf |-> loginFile])
              /\ last' = Step("login state read")
         ELSE /\ Settle(q)
              /\ last' = BidBCall(calls[q].args.url, calls[q].args.amount,
                           placeBidB(calls[q].args.url, calls[q].args.amount,
                                     [PlaceBidBDefault EXCEPT
                                        !.failAt = IF launched THEN 0 ELSE 1],
                                     loginFile))
  /\ UNCHANGED <<variant, appVariant, now, loginFile, tempFile, bidsFile, contextFiles, dataBidsFile, lastActivityTimestamp, serverProcess, browser, batch, retryRun>>

BidBEnd(q) ==
  /\ calls[q].pc = "bidding" /\ variant = "B"
  /\ \E env \in PlaceBidBEnv :
       /\ env.failAt # 1
       /\ last' = BidBCall(calls[q].args.url, calls[q].args.amount,
                    placeBidB(calls[q].args.url, calls[q].args.amount, env,
                              calls[q].loc.lf))
  /\ Settle(q)
  /\ UNCHANGED <<variant, appVariant, now, loginFile, tempFile, bidsFile, contextFiles, dataBidsFile, lastActivityTimestamp, serverProcess, browser, batch, retryRun>>

PlaceBidBBy(Q) == \E q \in Q : BidBBegin(q) \/ BidBRead(q) \/ BidBEnd(q)
PlaceBidB == PlaceBidBBy(Requests)

\* ---- copy C: on the shared this.browser, with a session refresh first
\* when checkLoginState does not hold
BidCLoc(valid0) ==
  [valid0 |-> valid0, rf |-> NoRefresh, env |-> Kept(GoodLogin), stateOk |-> TRUE]

BidCBegin(q) ==
  /\ CanBegin(q)
  /\ variant = "C"
  /\ \E url \in ProductUrls, amount \in Amounts :
       IF checkLoginState(loginFile).ret
         THEN /\ Begin(q, "placeBid", "bid launching",
                       [url |-> url, amount |-> amount], BidCLoc(TRUE))
              /\ loginFile' = loginFile
              /\ last' = BidBegins(url, amount)
         ELSE \* refreshLoginSession -> login, up to its chromium.launch
              /\ Begin(q, "placeBid", "login launching",
                       [url |-> url, amount |-> amount], BidCLoc(FALSE))
              /\ \E unlinkFails \in BOOLEAN :
                   loginFile' = loginBegin(loginFile, unlinkFails)
              /\ last' = BidBegins(url, amount)
  /\ UNCHANGED <<variant, appVariant, now, tempFile, bidsFile, contextFiles, dataBidsFile, lastActivityTimestamp, serverProcess, browser, batch, retryRun>>

\* this.browser = await chromium.launch(...), the second launch of a run
\* that refreshed the session
BidCLaunched(q) ==
  /\ calls[q].pc = "bid launching" /\ variant = "C"
  /\ \E launched \in BOOLEAN :
       LET b == launchAnew(browser, launched) IN
       /\ browser' = b.browser
       /\ IF launched
            THEN /\ Goto(q, "bid context", calls[q].loc)
                 /\ last' = [Step("bid launched") EXCEPT !.orphaned = b.orphaned]
            ELSE /\ Settle(q)
                 /\ last' = BidCall(calls[q].args.url, calls[q].args.amount,
                              placeBidCReturn(calls[q].args.url, calls[q].args.amount,
                                              [PlaceBidCDefault EXCEPT !.failAt = 1],
                                              calls[q].loc.valid0, calls[q].loc.rf,
                                              TRUE))
  /\ UNCHANGED <<variant, appVariant, now, loginFile, tempFile, bidsFile, contextFiles, dataBidsFile, lastActivityTimestamp, serverProcess, batch, retryRun>>

\* the throw-away context is closed; newContext({storageState: 'login.json'})
\* reads the file
BidCContext(q) ==
  /\ calls[q].pc = "bid context" /\ variant = "C"
  /\ Goto(q, "bidding",
          [calls[q].loc EXCEPT !.stateOk = loginFile.kind \notin {"missing", "malformed"}])
  /\ last' = Step("storage state read")
  /\ UNCHANGED <<variant, appVariant, now, loginFile, tempFile, bidsFile, contextFiles, dataBidsFile, lastActivityTimestamp, serverProcess, browser, batch, retryRun>>

\* the rest of the try block, the catch and the finally block settled
BidCEnd(q) ==
  /\ calls[q].pc = "bidding" /\ variant = "C"
  /\ \E env \in PlaceBidCEnv :
       /\ env.refresh = GoodLogin /\ env.failAt # 1
       /\ ~calls[q].loc.stateOk => env.failAt \in {2, 3}
       /\ last' = BidCall(calls[q].args.url, calls[q].args.amount,
                    placeBidCReturn(calls[q].args.url, calls[q].args.amount, env,
                                    calls[q].loc.valid0, calls[q].loc.rf, TRUE))
  /\ Settle(q)
  /\ UNCHANGED <<variant, appVariant, now, loginFile, tempFile, bidsFile, contextFiles, dataBidsFile, lastActivityTimestamp, serverProcess, browser, batch, retryRun>>

\* a run that refreshes goes through the steps of login in between
PlaceBidCBy(Q) ==
  \E q \in Q :
    \/ BidCBegin(q)
    \/ LoginLaunched(q) \/ LoginSave(q) \/ LoginEnd(q)
    \/ BidCLaunched(q) \/ BidCContext(q) \/ BidCEnd(q)
PlaceBidC == PlaceBidCBy(Requests)

\* ---- copies D and E (and POST /place-bid on copy E): a local browser,
\* login.json read by newContext, the ledger upsert in one synchronous
\* block after the last browser step, browser.close() in the finally block
BidOf(q, env, lf, bf) ==
  IF variant = "D"
    THEN placeBidD(calls[q].args.url, calls[q].args.amount, env, lf, bf, now)
    ELSE placeBidE(calls[q].args.url, calls[q].args.amount, env, lf, bf)
BidEnvs(q) ==
  IF calls[q].op = "POST /place-bid" THEN ApiBidEnv
  ELSE IF variant = "D" THEN PlaceBidDEnv ELSE PlaceBidEEnv
BidDefault == IF variant = "D" THEN PlaceBidDDefault ELSE PlaceBidEDefault

\* what placeBid returns of r, without the ledger it wrote
Returned(r) ==
  [success |-> r.success, threw |-> r.threw, error |-> r.error, navs |-> r.navs,
   filled |-> r.filled, submits |-> r.submits, landed |-> r.landed]

\* placeBid has returned r
BidDone(q, r) ==
  LET url == calls[q].args.url
      amount == calls[q].args.amount
      h == postPlaceBid(url, amount, r)
  IN IF calls[q].op = "placeBid"
       THEN /\ Keep(q, [success |-> r.success, ledgerAtCall |-> calls[q].loc.ledgerAtCall])
            /\ last' = BidCall(url, amount, r)
       ELSE /\ Settle(q)
            /\ last' = [BidCall(url, amount, r) EXCEPT
                          !.op = "POST /place-bid", !.status = h.status,
                          !.success = h.success, !.invoked = h.invoked]

BidDEBeginOf(q, amounts) ==
  /\ CanBegin(q)
  /\ variant \in {"D", "E"}
  /\ Len(bidsFile.bids) < MaxBids
  /\ \E url \in ProductUrls, amount \in amounts :
       /\ Begin(q, "placeBid", "bid context", [url |-> url, amount |-> amount],
                [ledgerAtCall |-> bidsFile])
       /\ last' = BidBegins(url, amount)
  /\ UNCHANGED <<variant, appVariant, now, loginFile, tempFile, bidsFile, contextFiles, dataBidsFile, lastActivityTimestamp, serverProcess, browser, batch, retryRun>>

\* the handler: the middleware, the 400 test, then scraper.placeBid
PostPlaceBidBegin(q) ==
  /\ CanBegin(q)
  /\ variant = "E"
  /\ Len(bidsFile.bids) < MaxBids
  /\ lastActivityTimestamp' = activity(appVariant, now, lastActivityTimestamp)
  /\ \E productUrl \in ProductUrls \cup {NoProductId}, bidAmount \in AmountInputs :
       LET h == postPlaceBid(productUrl, bidAmount, [threw |-> FALSE, success |-> TRUE])
       IN IF ~h.invoked
            THEN /\ last' = [Blank EXCEPT !.op = "POST /place-bid",
                                          !.url = productUrl, !.amount = bidAmount,
                                          !.status = h.status, !.success = h.success,
                                          !.invoked = h.invoked]
                 /\ UNCHANGED calls
            ELSE /\ Begin(q, "POST /place-bid", "bid context",
                          [url |-> productUrl, amount |-> bidAmount],
                          [ledgerAtCall |-> bidsFile])
                 /\ last' = [BidBegins(productUrl, bidAmount)
                               EXCEPT !.op = "POST /place-bid begins"]
  /\ UNCHANGED <<variant, appVariant, now, loginFile, tempFile, bidsFile, contextFiles, dataBidsFile, serverProcess, browser, batch, retryRun>>

\* the launch settled; newContext({storageState: 'login.json'}) reads the file
BidDEContext(q) ==
  /\ calls[q].pc = "bid context" /\ variant \in {"D", "E"}
  /\ \E launched \in {k \in BOOLEAN : k \/ \E e \in BidEnvs(q) : e.failAt = 1} :
       IF launched /\ loginFile.kind \notin {"missing", "malformed"}
         THEN /\ Goto(q, "bidding", [ledgerAtCall |-> calls[q].loc.ledgerAtCall,
                                     lf |-> loginFile])
              /\ last' = Step("storage state read")
         ELSE /\ BidDone(q, BidOf(q, [BidDefault EXCEPT
                                        !.failAt = IF launched THEN 0 ELSE 1],
                                  loginFile, bidsFile))
  /\ UNCHANGED <<variant, appVariant, now, loginFile, tempFile, bidsFile, contextFiles, dataBidsFile, lastActivityTimestamp, serverProcess, browser, batch, retryRun>>

\* the browser steps settled; a run that got through them upserts the ledger
BidDEWork(q) ==
  /\ calls[q].pc = "bidding" /\ variant \in {"D", "E"}
  /\ \E env \in BidEnvs(q) :
       /\ env.failAt # 1
       /\ \E r \in {BidOf(q, env, calls[q].loc.lf,
                          ledgerRead(calls[q].loc.ledgerAtCall, bidsFile))} :
            /\ bidsFile' = IF r.success THEN r.bidsFile ELSE bidsFile
            /\ IF r.success
                 THEN /\ Goto(q, "bid closing",
                              [ledgerAtCall |-> calls[q].loc.ledgerAtCall,
                               r |-> Returned(r)])
                      /\ last' = Step("ledger written")
                 ELSE BidDone(q, r)
  /\ UNCHANGED <<variant, appVariant, now, loginFile, tempFile, contextFiles, dataBidsFile, lastActivityTimestamp, serverProcess, browser, batch, retryRun>>

\* finally { await browser.close().catch(...) } settled: return
BidDEEnd(q) ==
  /\ calls[q].pc = "bid closing" /\ variant \in {"D", "E"}
  /\ BidDone(q, calls[q].loc.r)
  /\ UNCHANGED <<variant, appVariant, now, loginFile, tempFile, bidsFile, contextFiles, dataBidsFile, lastActivityTimestamp, serverProcess, browser, batch, retryRun>>

BidDEBegin(q) == BidDEBeginOf(q, Amounts)

BidDESteps(q) == BidDEContext(q) \/ BidDEWork(q) \/ BidDEEnd(q)

PlaceBidDBy(Q) == \E q \in Q : variant = "D" /\ (BidDEBegin(q) \/ BidDESteps(q))
PlaceBidEBy(Q) == \E q \in Q : variant = "E" /\ (BidDEBegin(q) \/ BidDESteps(q))
PlaceBidD == PlaceBidDBy(Requests)
PlaceBidE == PlaceBidEBy(Requests)

\* two clients bidding at the same time, with a session that newContext
\* can load and a ledger that is absent or holds an array
InitBidRace ==
  /\ InitBidOf({"D", "E"})
  /\ loginFile = SessionOf([n \in requiredCookies |-> "fresh"])
  /\ bidsFile.kind # "malformed"

\* the amounts do not matter to the ledger's records being there: one amount
RaceAmounts == {MaxAmount}
PlaceBidRace == \E q \in Requests : BidDEBeginOf(q, RaceAmounts) \/ BidDESteps(q)

SpecBidRace == InitBidRace /\ [][PlaceBidRace]_vars

\* one deployment each: the copy of the class that is installed; for the
\* copies C and E, one client whose calls follow one another
SpecBidA == InitBidA /\ [][PlaceBidA]_vars
SpecBidB == InitBidB /\ [][PlaceBidB]_vars
SpecBidC == InitBidC /\ [][PlaceBidCBy(OneClient)]_vars
SpecBidD == InitBidD /\ [][PlaceBidD]_vars
SpecBidE == InitBidE /\ [][PlaceBidEBy(OneClient)]_vars

\* ---- the bid endpoints of app.js, on copy E
InitBidApi ==
  /\ variant = "E"
  /\ appVariant = 1
  /\ now = InitNow
  /\ loginFile \in {MissingFile, SessionOf([n \in requiredCookies |-> "fresh"])}
  /\ tempFile = MissingFile
  /\ bidsFile = BidsFile("missing", <<>>)
  /\ dataBidsFile \in {BidsFile("missing", <<>>), BidsFile("object", <<>>)}
  /\ contextFiles = NoContexts
  /\ last = Blank
  /\ lastActivityTimestamp = InitNow
  /\ serverProcess = Running
  /\ browser = "none"
  /\ batch = NoBatches
  /\ retryRun = NoRetry
  /\ calls = NoCalls

PostPlaceBidBy(Q) == \E q \in Q : PostPlaceBidBegin(q) \/ BidDESteps(q)
PostPlaceBid == PostPlaceBidBy(Requests)

\* fs.readFileSync in a handler that is not async: one step
GetBids ==
  /\ last.op # "GET /bids"
  /\ lastActivityTimestamp' = activity(appVariant, now, lastActivityTimestamp)
  /\ LET g == getBids(bidsFile, dataBidsFile) IN
       last' = [Blank EXCEPT !.op = "GET /bids", !.status = g.status, !.bids = g.bids]
  /\ UNCHANGED <<variant, appVariant, now, loginFile, tempFile, bidsFile, contextFiles, dataBidsFile, serverProcess, browser, batch, retryRun, calls>>

SpecBidApi == InitBidApi /\ [][PostPlaceBidBy(OneClient) \/ GetBids]_vars

\* ---------------------------------------------------- scrapeSearchResults
InitScrape ==
  /\ variant = "A"
  /\ appVariant = 1
  /\ now = InitNow
  /\ loginFile \in FewSessionFiles
  /\ tempFile = MissingFile
  /\ bidsFile = BidsFile("missing", <<>>)
  /\ contextFiles = NoContexts
  /\ last = Blank
  /\ dataBidsFile = BidsFile("missing", <<>>)
  /\ lastActivityTimestamp = InitNow
  /\ serverProcess = Running
  /\ browser = "none"
  /\ batch = NoBatches
  /\ retryRun = NoRetry
  /\ calls = NoCalls

ScrapeCall(q, page, env) ==
  LET r == scrapeSearchResults(page, env) IN
  [Blank EXCEPT !.op = "scrapeSearchResults", !.page = page,
                !.threw = r.threw, !.navs = r.navs, !.waited = r.waited,
                !.noResults = env.noResults,
                !.hasCount = env.resultNum.hasCount,
                !.products = IF r.threw THEN <<>> ELSE r.result.products,
                !.totalProducts = IF r.threw THEN 0 ELSE r.result.totalProducts,
                !.currentPage = IF r.threw THEN 0 ELSE r.result.currentPage,
                !.alone = calls[q].alone]

ScrapeBegin(q) ==
  /\ CanBegin(q)
  /\ \E page \in Pages :
       BeginViaSetup(q, "scrapeSearchResults", [page |-> page], <<>>)
  /\ last' = Step("scrapeSearchResults begins")
  /\ UNCHANGED <<variant, appVariant, now, bidsFile, contextFiles, dataBidsFile, lastActivityTimestamp, serverProcess, browser, batch, retryRun>>

\* the rest of the try block and the finally block settled
ScrapeEndOf(q, envs) ==
  /\ calls[q].op = "scrapeSearchResults"
  /\ \E env \in envs :
       /\ AfterLaunch(q, env)
       /\ last' = ScrapeCall(q, calls[q].args.page, env)
  /\ Settle(q)
  /\ UNCHANGED <<variant, appVariant, now, loginFile, tempFile, bidsFile, contextFiles, dataBidsFile, lastActivityTimestamp, serverProcess, browser, batch, retryRun>>

ScrapeEnd(q) == ScrapeEndOf(q, ScrapeEnv)

\* the launches of the calls that are in setupBrowser
SetupRunBy(Q) == \E q \in Q : SetupLaunched(q)
SetupRun == SetupRunBy(Requests)

CallScrapeSearchResults ==
  (\E q \in Requests : ScrapeBegin(q) \/ ScrapeEnd(q)) \/ SetupRun

SpecScrape == InitScrape /\ [][CallScrapeSearchResults]_vars

\* scrapeSearchResults against the few pages the handlers are tried with
ScrapeEndFew(q) ==
  ScrapeEndOf(q, ScrapeEnvFew \cup {[ScrapeDefault EXCEPT !.failAt = 1]})

\* without the launches, which SetupRun holds
ScrapeFewSteps == \E q \in Requests : ScrapeBegin(q) \/ ScrapeEndFew(q)

CallScrapeSearchResultsFew == ScrapeFewSteps \/ SetupRun

\* ------------------------------------------------- /search and /load-more
InitSearchOf(apps) ==
  /\ variant = "A"
  /\ appVariant \in apps
  /\ now = InitNow
  /\ loginFile = MissingFile
  /\ tempFile = MissingFile
  /\ bidsFile = BidsFile("missing", <<>>)
  /\ contextFiles = NoContexts
  /\ last = Blank
  /\ dataBidsFile = BidsFile("missing", <<>>)
  /\ lastActivityTimestamp = InitNow
  /\ serverProcess = Running
  /\ browser = "none"
  /\ batch = NoBatches
  /\ retryRun = NoRetry
  /\ calls = NoCalls

InitSearch1 == InitSearchOf({1})
InitSearch2 == InitSearchOf({2})

\* the response of a handler, and what it did on the way
AnswerOf(op, id, alone, r) ==
  [Blank EXCEPT !.op = op, !.ctxId = id, !.status = r.status,
                !.success = r.success, !.error = r.error,
                !.threw = r.threw, !.scrapes = r.scrapes,
                !.products = r.products,
                !.totalProducts = r.totalProducts,
                !.currentPage = r.currentPage, !.found = r.found,
                !.fetched = r.fetched,
                !.responses = r.responses,
                !.alone = alone]
Answer(q, r) == AnswerOf(calls[q].op, calls[q].args.id, calls[q].alone, r)

\* what is kept of a /load-more request that was answered
Answered(r) == [status |-> r.status, products |-> r.products, fetched |-> r.fetched]

\* ---- cleanupSearchContexts: readdir, then per listed file stat and, for
\* an old file, unlink; each of them is awaited. The caller goes on in a
\* later turn, from "swept"
Swept(q) ==
  /\ Goto(q, "swept", <<>>)
  /\ last' = Step("swept")

\* await fs.promises.readdir(__dirname) settled
SweepListed(q) ==
  /\ calls[q].pc = "sweep listing"
  /\ IF readdir(contextFiles) = <<>>
       THEN Swept(q)
       ELSE /\ Goto(q, "sweep stat", [listing |-> readdir(contextFiles), i |-> 1])
            /\ last' = Step("listed")
  /\ UNCHANGED <<variant, appVariant, now, loginFile, tempFile, bidsFile, contextFiles, dataBidsFile, lastActivityTimestamp, serverProcess, browser, batch, retryRun>>

\* the loop goes on to the next listed file, or the sweep returns
SweepOn(q) ==
  IF calls[q].loc.i < Len(calls[q].loc.listing)
    THEN /\ Goto(q, "sweep stat", [calls[q].loc EXCEPT !.i = @ + 1])
         /\ last' = Step("sweeping")
    ELSE Swept(q)

\* await fs.promises.stat(filePath) settled; it rejects for a file that is
\* gone, and the outer catch ends the sweep
SweepStat(q) ==
  /\ calls[q].pc = "sweep stat"
  /\ LET file == contextFiles[calls[q].loc.listing[calls[q].loc.i]] IN
     \E fails \in BOOLEAN :
       /\ ~file.exists => fails
       /\ IF fails THEN Swept(q)
          ELSE IF tooOld(file, now)
            THEN /\ Goto(q, "sweep unlink", calls[q].loc)
                 /\ last' = Step("old file found")
          ELSE SweepOn(q)
  /\ UNCHANGED <<variant, appVariant, now, loginFile, tempFile, bidsFile, contextFiles, dataBidsFile, lastActivityTimestamp, serverProcess, browser, batch, retryRun>>

\* await fs.promises.unlink(filePath) settled: the file is gone, or the
\* unlink rejected (as it does for a file that is gone already) and the
\* inner catch logs it; the loop goes on either way
SweepUnlink(q) ==
  /\ calls[q].pc = "sweep unlink"
  /\ LET id == calls[q].loc.listing[calls[q].loc.i] IN
     \E fails \in BOOLEAN :
       /\ ~contextFiles[id].exists => fails
       /\ contextFiles' = unlinkContext(contextFiles, id, fails)
  /\ SweepOn(q)
  /\ UNCHANGED <<variant, appVariant, now, loginFile, tempFile, bidsFile, dataBidsFile, lastActivityTimestamp, serverProcess, browser, batch, retryRun>>

\* the sweeps in progress, as handlers and direct calls have begun them
SweepRunBy(Q) == \E q \in Q : SweepListed(q) \/ SweepStat(q) \/ SweepUnlink(q)
SweepRun == SweepRunBy(Requests)

\* ---- POST /search
\* const searchId = Math.random()...; first copy: the middleware and the
\* sweep; second copy: the 400 test, then scraper.scrapeSearchResults
PostSearchBegin(q) ==
  /\ CanBegin(q)
  /\ lastActivityTimestamp' = activity(appVariant, now, lastActivityTimestamp)
  /\ \E id \in ContextIds, terms \in TermLists :
       IF appVariant = 1
         THEN /\ Begin(q, "search", "sweep listing", [id |-> id, terms |-> terms], <<>>)
              /\ last' = Step("search begins")
              /\ UNCHANGED <<loginFile, tempFile>>
       ELSE IF terms = <<>>
         THEN /\ last' = AnswerOf("search", id, \A o \in Requests : ~InProgress(o),
                                  searchBody(id, terms, ScrapeDefault, contextFiles, now))
              /\ UNCHANGED <<calls, loginFile, tempFile>>
         ELSE /\ BeginViaSetup(q, "search", [id |-> id, terms |-> terms], <<>>)
              /\ last' = Step("search begins")
  /\ UNCHANGED <<variant, appVariant, now, bidsFile, contextFiles, dataBidsFile, serverProcess, browser, batch, retryRun>>

\* after the sweep: if (!searchTerms.length) 400; else
\* scraper.scrapeSearchResults, up to the await in its setupBrowser
PostSearchSwept(q) ==
  /\ calls[q].op = "search" /\ calls[q].pc = "swept"
  /\ IF calls[q].args.terms = <<>>
       THEN /\ Settle(q)
            /\ last' = Answer(q, searchBody(calls[q].args.id, <<>>, ScrapeDefault,
                                            contextFiles, now))
            /\ UNCHANGED <<loginFile, tempFile>>
       ELSE /\ GotoViaSetup(q, <<>>)
            /\ last' = Step("search scrapes")
  /\ UNCHANGED <<variant, appVariant, now, bidsFile, contextFiles, dataBidsFile, lastActivityTimestamp, serverProcess, browser, batch, retryRun>>

\* the scrape settled: writeFileSync of the context, res.json
PostSearchEnd(q) ==
  /\ calls[q].op = "search"
  /\ \E env \in ScrapeEnvFew \cup {[ScrapeDefault EXCEPT !.failAt = 1]} :
       /\ AfterLaunch(q, env)
       /\ \E r \in {searchBody(calls[q].args.id, calls[q].args.terms, env,
                               contextFiles, now)} :
            /\ contextFiles' = r.files
            /\ last' = Answer(q, r)
  /\ Settle(q)
  /\ UNCHANGED <<variant, appVariant, now, loginFile, tempFile, bidsFile, dataBidsFile, lastActivityTimestamp, serverProcess, browser, batch, retryRun>>

PostSearch1Steps(Q) ==
  \E q \in Q : PostSearchBegin(q) \/ PostSearchSwept(q) \/ PostSearchEnd(q)
PostSearch2Steps(Q) == \E q \in Q : PostSearchBegin(q) \/ PostSearchEnd(q)

PostSearch1 == appVariant = 1 /\ (PostSearch1Steps(Requests) \/ SweepRun \/ SetupRun)
PostSearch2 == appVariant = 2 /\ (PostSearch2Steps(Requests) \/ SetupRun)

\* ---- POST /load-more, first copy: sweep, read, the scrapes on a scraper
\* of its own, write, answer
PostLoadMore1Begin(q) ==
  /\ CanBegin(q)
  /\ appVariant = 1
  /\ lastActivityTimestamp' = activity(appVariant, now, lastActivityTimestamp)
  /\ \E id \in RequestIds :
       /\ PageRoom(id)
       /\ Begin(q, "loadMore", "sweep listing", [id |-> id], <<>>)
  /\ last' = Step("loadMore begins")
  /\ UNCHANGED <<variant, appVariant, now, loginFile, tempFile, bidsFile, contextFiles, dataBidsFile, serverProcess, browser, batch, retryRun>>

\* after the sweep: existsSync (404), readFileSync and JSON.parse,
\* terms[currentTermIndex].term, then the first scrape
PostLoadMore1Read(q) ==
  /\ calls[q].op = "loadMore" /\ calls[q].pc = "swept"
  /\ LET id == calls[q].args.id
         found == fileExists(contextFiles, id)
         ctx == IF found THEN contextFiles[id] ELSE NoContext
     IN IF ~found \/ ctx.currentTermIndex >= Len(ctx.terms)
          THEN \E r \in {loadMoreBody1(id, found, ctx, ScrapeDefault, ScrapeDefault,
                                       contextFiles, now)} :
                 /\ Keep(q, Answered(r))
                 /\ last' = Answer(q, r)
          ELSE /\ Goto(q, "scraping", [ctx |-> ctx])
               /\ last' = Step("context read")
  /\ UNCHANGED <<variant, appVariant, now, loginFile, tempFile, bidsFile, contextFiles, dataBidsFile, lastActivityTimestamp, serverProcess, browser, batch, retryRun>>

\* the scrapes settled: append to the object read before them,
\* writeFileSync, res.json, then the finally block
PostLoadMore1End(q) ==
  /\ calls[q].op = "loadMore" /\ calls[q].pc = "scraping" /\ appVariant = 1
  /\ \E env1 \in ScrapeEnvFew, env2 \in ScrapeEnvFew :
       \E r \in {loadMoreBody1(calls[q].args.id, TRUE, calls[q].loc.ctx, env1, env2,
                               contextFiles, now)} :
         /\ contextFiles' = r.files
         /\ last' = Answer(q, r)
         /\ Keep(q, Answered(r))
  /\ UNCHANGED <<variant, appVariant, now, loginFile, tempFile, bidsFile, dataBidsFile, lastActivityTimestamp, serverProcess, browser, batch, retryRun>>

PostLoadMore1Steps(Q) ==
  \E q \in Q :
    PostLoadMore1Begin(q) \/ PostLoadMore1Read(q) \/ PostLoadMore1End(q)

PostLoadMore1 == PostLoadMore1Steps(Requests) \/ SweepRun

\* ---- POST /load-more, second copy: no middleware and no sweep; the read
\* comes first, the scrapes run on the shared scraper
PostLoadMore2Begin(q) ==
  /\ CanBegin(q)
  /\ appVariant = 2
  /\ \E id \in RequestIds :
       LET found == fileExists(contextFiles, id)
           ctx == IF found THEN contextFiles[id] ELSE NoContext
       IN /\ PageRoom(id)
          /\ IF ~found \/ ctx.currentTermIndex >= Len(ctx.terms)
               THEN /\ last' = AnswerOf("loadMore", id,
                                       \A o \in Requests : ~InProgress(o),
                                       loadMoreBody2(id, found, ctx, ScrapeDefault,
                                                     ScrapeDefault, contextFiles, now))
                    /\ UNCHANGED <<calls, loginFile, tempFile>>
               ELSE /\ BeginViaSetup(q, "loadMore", [id |-> id],
                                     [ctx |-> ctx, first |-> ScrapeDefault, nth |-> 1])
                    /\ last' = Step("loadMore begins")
  /\ UNCHANGED <<variant, appVariant, now, bidsFile, contextFiles, dataBidsFile, lastActivityTimestamp, serverProcess, browser, batch, retryRun>>

\* writeFileSync of the context, res.json
Saved2(q, env1, env2) ==
  \E r \in {loadMoreBody2(calls[q].args.id, TRUE, calls[q].loc.ctx, env1, env2,
                          contextFiles, now)} :
    /\ contextFiles' = r.files
    /\ last' = Answer(q, r)
    /\ Settle(q)
    /\ UNCHANGED <<loginFile, tempFile>>

\* the first scrape settled: the scrape of the next term goes through
\* setupBrowser again; without one the context is saved and res.json sent
PostLoadMore2First(q) ==
  /\ calls[q].op = "loadMore" /\ appVariant = 2 /\ calls[q].loc.nth = 1
  /\ \E env1 \in ScrapeEnvFew \cup {[ScrapeDefault EXCEPT !.failAt = 1]} :
       /\ AfterLaunch(q, env1)
       /\ IF nextProducts(calls[q].loc.ctx, env1, ScrapeDefault, TRUE).scrapes = 2
            THEN /\ GotoViaSetup(q, [calls[q].loc EXCEPT !.first = env1, !.nth = 2])
                 /\ last' = Step("first scrape done")
                 /\ contextFiles' = contextFiles
            ELSE Saved2(q, env1, ScrapeDefault)
  /\ UNCHANGED <<variant, appVariant, now, bidsFile, dataBidsFile, lastActivityTimestamp, serverProcess, browser, batch, retryRun>>

\* the second scrape settled
PostLoadMore2Second(q) ==
  /\ calls[q].op = "loadMore" /\ appVariant = 2 /\ calls[q].loc.nth = 2
  /\ \E env2 \in ScrapeEnvFew \cup {[ScrapeDefault EXCEPT !.failAt = 1]} :
       /\ AfterLaunch(q, env2)
       /\ Saved2(q, calls[q].loc.first, env2)
  /\ UNCHANGED <<variant, appVariant, now, bidsFile, dataBidsFile, lastActivityTimestamp, serverProcess, browser, batch, retryRun>>

PostLoadMore2Steps(Q) ==
  \E q \in Q :
    PostLoadMore2Begin(q) \/ PostLoadMore2First(q) \/ PostLoadMore2Second(q)

PostLoadMore2 == PostLoadMore2Steps(Requests) \/ SetupRun

\* two /load-more requests on a context /search has left, a moment or
\* more than the TTL ago
InitLoadMoreRace ==
  /\ variant = "A"
  /\ appVariant = 1
  /\ now \in {InitNow, InitNow + ContextTtl + 1}
  /\ loginFile = MissingFile
  /\ tempFile = MissingFile
  /\ bidsFile = BidsFile("missing", <<>>)
  /\ contextFiles \in {[id \in ContextIds |-> SearchedContext(terms)]
                         : terms \in {<<"t1">>, <<"t1", "t2">>}}
  /\ last = Blank
  /\ dataBidsFile = BidsFile("missing", <<>>)
  /\ lastActivityTimestamp = InitNow
  /\ serverProcess = Running
  /\ browser = "none"
  /\ batch = NoBatches
  /\ retryRun = NoRetry
  /\ calls = NoCalls

SpecLoadMoreRace == InitLoadMoreRace /\ [][PostLoadMore1]_vars

\* one deployment each: the copy of app.js that is installed, over time,
\* with one client whose requests follow one another
SpecSearch1 ==
  InitSearch1 /\ [][Tick \/ PostSearch1Steps(OneClient) \/ PostLoadMore1Steps(OneClient)
                      \/ SweepRunBy(OneClient) \/ SetupRunBy(OneClient)]_vars
SpecSearch2 ==
  InitSearch2 /\ [][Tick \/ PostSearch2Steps(OneClient) \/ PostLoadMore2Steps(OneClient)
                      \/ SetupRunBy(OneClient)]_vars

\* ------------------------------------------------------------- the sweep
InitSweep ==
  /\ variant = "A"
  /\ appVariant = 1
  /\ now = InitNow
  /\ loginFile = MissingFile
  /\ tempFile = MissingFile
  /\ bidsFile = BidsFile("missing", <<>>)
  /\ contextFiles \in [SweepIds -> {NoContext, SweepContext(InitNow)}]
  /\ last = Blank
  /\ dataBidsFile = BidsFile("missing", <<>>)
  /\ lastActivityTimestamp = InitNow
  /\ serverProcess = Running
  /\ browser = "none"
  /\ batch = NoBatches
  /\ retryRun = NoRetry
  /\ calls = NoCalls

\* a request writes (or rewrites) one context file
WriteContext ==
  /\ \E id \in SweepIds :
       contextFiles' = [contextFiles EXCEPT ![id] = SweepContext(now)]
  /\ last' = [Blank EXCEPT !.op = "write"]
  /\ UNCHANGED <<variant, appVariant, now, loginFile, tempFile, bidsFile, dataBidsFile, lastActivityTimestamp, serverProcess, browser, batch, retryRun, calls>>

\* a run of cleanupSearchContexts, as the first copy's handlers start with;
\* at: the time of the call
SweepBegin(q) ==
  /\ CanBegin(q)
  /\ Begin(q, "cleanup", "sweep listing", [at |-> now], <<>>)
  /\ last' = Step("cleanup begins")
  /\ UNCHANGED <<variant, appVariant, now, loginFile, tempFile, bidsFile, contextFiles, dataBidsFile, lastActivityTimestamp, serverProcess, browser, batch, retryRun>>

\* the sweep has returned
SweepEnd(q) ==
  /\ calls[q].op = "cleanup" /\ calls[q].pc = "swept"
  /\ Settle(q)
  /\ last' = [Blank EXCEPT !.op = "cleanup", !.alone = calls[q].alone]
  /\ UNCHANGED <<variant, appVariant, now, loginFile, tempFile, bidsFile, contextFiles, dataBidsFile, lastActivityTimestamp, serverProcess, browser, batch, retryRun>>

CallCleanupSearchContexts ==
  (\E q \in Requests : SweepBegin(q) \/ SweepEnd(q)) \/ SweepRun

SpecSweep == InitSweep /\ [][Tick \/ WriteContext \/ CallCleanupSearchContexts]_vars

\* the same server over time: the clock goes on by itself, requests (and
\* with them the sweep, which only the /search and /load-more handlers
\* call) come or do not come; app.js sets no timer for the sweep
SpecSweepTimed ==
  InitSweep /\ [][Tick \/ WriteContext \/ CallCleanupSearchContexts]_vars
    /\ WF_vars(Tick)

\* ---------------------------------------- updateBid, /update-bid-prices
InitUpdate ==
  /\ variant = "A"
  /\ appVariant = 1
  /\ now = InitNow
  /\ loginFile = MissingFile
  /\ tempFile = MissingFile
  /\ bidsFile = BidsFile("missing", <<>>)
  /\ contextFiles = NoContexts
  /\ last = Blank
  /\ dataBidsFile = BidsFile("missing", <<>>)
  /\ lastActivityTimestamp = InitNow
  /\ serverProcess = Running
  /\ browser = "none"
  /\ batch = NoBatches
  /\ retryRun = NoRetry
  /\ calls = NoCalls

\* the outcomes of updateBid's awaited calls, with those whose setupBrowser
\* rejects, before or after its newContext
UpdateEnvs ==
  UpdateEnv \cup {[UpdateDefault EXCEPT !.failAt = 1, !.contextMade = c]
                     : c \in BOOLEAN}

UpdateBegin(q) ==
  /\ CanBegin(q)
  /\ \E productUrl \in {UrlAuction, UrlPlain} :
       BeginViaSetup(q, "updateBid", [url |-> productUrl], <<>>)
  /\ last' = Step("updateBid begins")
  /\ UNCHANGED <<variant, appVariant, now, bidsFile, contextFiles, dataBidsFile, lastActivityTimestamp, serverProcess, browser, batch, retryRun>>

\* the rest of the try block and the finally block settled
UpdateEnd(q) ==
  /\ calls[q].op = "updateBid"
  /\ \E env \in UpdateEnvs :
       LET r == updateBid(calls[q].args.url, env) IN
       /\ AfterLaunch(q, env)
       \* without a browser setupBrowser made no context
       /\ calls[q].pc = "no browser" => ~env.contextMade
       /\ last' = [Blank EXCEPT !.op = "updateBid", !.url = calls[q].args.url,
                                !.threw = r.threw, !.success = ~r.failed,
                                !.error = r.error,
                                !.openContexts = r.openContexts,
                                !.openPages = r.openPages,
                                !.alone = calls[q].alone]
  /\ Settle(q)
  /\ UNCHANGED <<variant, appVariant, now, loginFile, tempFile, bidsFile, contextFiles, dataBidsFile, lastActivityTimestamp, serverProcess, browser, batch, retryRun>>

\* without the launches, which SetupRun holds
UpdateBidSteps(Q) == \E q \in Q : UpdateBegin(q) \/ UpdateEnd(q)

CallUpdateBid == UpdateBidSteps(Requests) \/ SetupRun

\* ---- POST /update-bid-prices: the loop of the request in slot q is in
\* batch[q], the await it is suspended at in its slot
\* the middleware, the validation, then the first iteration up to the
\* await in updateBid's setupBrowser
BatchBeginOf(q, bodies) ==
  /\ CanBegin(q)
  /\ lastActivityTimestamp' = activity(appVariant, now, lastActivityTimestamp)
  /\ \E body \in bodies :
       /\ batch' = [batch EXCEPT ![q] = batchBegin(body.isArray, body.urls)]
       /\ IF batchBegin(body.isArray, body.urls).pc = "done"
            THEN /\ last' = [Blank EXCEPT !.op = "updateBidPrices", !.urls = body.urls,
                                          !.isArray = body.isArray,
                                          !.status = 400]
                 /\ UNCHANGED <<calls, loginFile, tempFile>>
            ELSE /\ BeginViaSetup(q, "updateBidPrices", [urls |-> body.urls], <<>>)
                 /\ last' = Step("updateBidPrices begins")
  /\ UNCHANGED <<variant, appVariant, now, bidsFile, contextFiles, dataBidsFile, serverProcess, browser, retryRun>>

BatchBegin(q) == BatchBeginOf(q, Bodies)

\* the awaited updateBid settled and its entry is pushed; the timer is set
BatchRefreshEndOf(q, envs) ==
  /\ calls[q].op = "updateBidPrices" /\ batch[q].pc = "refreshing"
  /\ \E env \in envs :
       /\ AfterLaunch(q, env)
       /\ calls[q].pc = "no browser" => ~env.contextMade
       /\ batch' = [batch EXCEPT ![q] =
                      afterRefresh(batch[q], batchEntry(batch[q].urls[batch[q].i], env))]
  /\ Goto(q, "delaying", <<>>)
  /\ last' = Step("updateBid settles")
  /\ UNCHANGED <<variant, appVariant, now, loginFile, tempFile, bidsFile, contextFiles, dataBidsFile, lastActivityTimestamp, serverProcess, browser, retryRun>>

BatchRefreshEnd(q) == BatchRefreshEndOf(q, UpdateEnvs)

\* the timers of the requests in progress
Delaying == {q \in Requests : calls[q].op = "updateBidPrices" /\ calls[q].pc = "delaying"}

\* a second passes while a timer runs; elapsed counts up to the delay
BatchDelayTick ==
  /\ \E q \in Delaying : batch[q].elapsed < RateLimitDelay
  /\ batch' = [q \in Requests |->
                 IF q \in Delaying /\ batch[q].elapsed < RateLimitDelay
                   THEN [batch[q] EXCEPT !.elapsed = batch[q].elapsed + 1]
                   ELSE batch[q]]
  /\ last' = Blank
  /\ UNCHANGED <<variant, appVariant, now, loginFile, tempFile, bidsFile, contextFiles, dataBidsFile, lastActivityTimestamp, serverProcess, browser, retryRun, calls>>

\* the timer fires once its time is up: the next iteration up to the await
\* in updateBid's setupBrowser, or res.json
BatchDelayEnd(q) ==
  /\ q \in Delaying
  /\ batch[q].elapsed >= RateLimitDelay
  /\ batch' = [batch EXCEPT ![q] = afterDelay(batch[q])]
  /\ IF afterDelay(batch[q]).pc = "done"
       THEN /\ Settle(q)
            /\ last' = [Blank EXCEPT !.op = "updateBidPrices",
                                     !.urls = batch[q].urls, !.isArray = TRUE,
                                     !.status = 200, !.success = TRUE,
                                     !.hasList = TRUE,
                                     !.products = batch[q].updatedBids,
                                     !.totalProducts = Len(batch[q].updatedBids),
                                     !.alone = calls[q].alone]
            /\ UNCHANGED <<loginFile, tempFile>>
       ELSE /\ GotoViaSetup(q, <<>>)
            /\ last' = Step("delay ends")
  /\ UNCHANGED <<variant, appVariant, now, bidsFile, contextFiles, dataBidsFile, lastActivityTimestamp, serverProcess, browser, retryRun>>

BatchSteps(Q) ==
  (\E q \in Q : BatchBegin(q) \/ BatchRefreshEnd(q) \/ BatchDelayEnd(q))
    \/ BatchDelayTick

PostUpdateBidPrices == BatchSteps(Requests) \/ SetupRun

\* POST /details: no await is reached
PostDetails ==
  /\ last = Blank \/ last.op # "POST /details"
  /\ lastActivityTimestamp' = activity(appVariant, now, lastActivityTimestamp)
  /\ \E body \in Bodies :
       LET r == postDetails(body.urls) IN
       last' = [Blank EXCEPT !.op = "POST /details", !.urls = body.urls,
                             !.status = r.status, !.success = r.success,
                             !.products = r.updatedDetails]
  /\ UNCHANGED <<variant, appVariant, now, loginFile, tempFile, bidsFile, contextFiles, dataBidsFile, serverProcess, browser, batch, retryRun, calls>>

SpecBatch == InitUpdate /\ [][BatchSteps(OneClient) \/ SetupRunBy(OneClient)]_vars

\* two requests to /update-bid-prices at a time, each with two URLs whose
\* refresh succeeds or fails in setupBrowser
RaceBodies == {[isArray |-> TRUE, urls |-> <<UrlAuction, UrlPlain>>]}
RaceEnvs == {UpdateDefault, [UpdateDefault EXCEPT !.failAt = 1]}
BatchRace ==
  (\E q \in Requests : BatchBeginOf(q, RaceBodies) \/ BatchRefreshEndOf(q, RaceEnvs)
                          \/ BatchDelayEnd(q))
    \/ BatchDelayTick \/ SetupRun
SpecBatchRace == InitUpdate /\ [][BatchRace]_vars

\* a batch next to direct calls of updateBid and to /details
SpecUpdate ==
  InitUpdate /\ [][BatchSteps(OneClient) \/ PostDetails \/ UpdateBidSteps(Requests)
                     \/ SetupRun]_vars

\* the three operations that only read the session, from either client,
\* next to the logins of one client, which write it
SpecReadOnly ==
  InitTwoFactorApi
    /\ [][Tick \/ LoginBy(OneClient) \/ CallCheckLoginState \/ ScrapeFewSteps
            \/ UpdateBidSteps(Requests) \/ SetupRun]_vars

\* ---- retry(fn, retries)
RetryBegin ==
  /\ retryRun.pc \in {"idle", "returned", "threw"}
  /\ \E retries \in 1..MaxRetries : retryRun' = retryBegin(retries)
  /\ last' = [Blank EXCEPT !.op = "retry begins"]
  /\ UNCHANGED <<variant, appVariant, now, loginFile, tempFile, bidsFile, contextFiles, dataBidsFile, lastActivityTimestamp, serverProcess, browser, batch, calls>>

RetryAttemptEnd ==
  /\ retryRun.pc = "calling"
  /\ \E out \in FnOutcomes : retryRun' = afterAttempt(retryRun, out)
  /\ last' = [Blank EXCEPT !.op = "fn settles"]
  /\ UNCHANGED <<variant, appVariant, now, loginFile, tempFile, bidsFile, contextFiles, dataBidsFile, lastActivityTimestamp, serverProcess, browser, batch, calls>>

RetryWaitEnd ==
  /\ retryRun.pc = "waiting"
  /\ retryRun' = afterWait(retryRun)
  /\ last' = [Blank EXCEPT !.op = "retry delay ends"]
  /\ UNCHANGED <<variant, appVariant, now, loginFile, tempFile, bidsFile, contextFiles, dataBidsFile, lastActivityTimestamp, serverProcess, browser, batch, calls>>

\* fn settles whenever it is awaited (the claim's premise) and a timer that
\* was set fires
SpecRetry ==
  InitUpdate /\ [][RetryBegin \/ RetryAttemptEnd \/ RetryWaitEnd]_vars
    /\ WF_vars(RetryAttemptEnd) /\ WF_vars(RetryWaitEnd)

\* ------------------------------------------------- inactivity shutdown
InitInactivity ==
  /\ variant \in ScraperVariants
  /\ appVariant = 1
  /\ now = InitNow
  /\ loginFile = MissingFile
  /\ tempFile = MissingFile
  /\ bidsFile = BidsFile("missing", <<>>)
  /\ contextFiles = NoContexts
  /\ last = Blank
  /\ dataBidsFile = BidsFile("missing", <<>>)
  /\ lastActivityTimestamp = InitNow
  /\ serverProcess = Running
  /\ browser = "none"
  /\ batch = NoBatches
  /\ retryRun = NoRetry
  /\ calls = NoCalls

\* a request to any route passes the middleware
Request ==
  /\ serverProcess.running
  /\ \E route \in Routes :
       last' = [Blank EXCEPT !.op = route]
  /\ lastActivityTimestamp' = activity(appVariant, now, lastActivityTimestamp)
  /\ UNCHANGED <<variant, appVariant, now, loginFile, tempFile, bidsFile, contextFiles, dataBidsFile, serverProcess, browser, batch, retryRun, calls>>

\* one run of the setInterval callback
InactivityCheck ==
  /\ serverProcess.running
  /\ LET timeSinceLastActivity == now - lastActivityTimestamp IN
       /\ last' = [Blank EXCEPT !.op = "inactivityCheck",
                                !.idle = timeSinceLastActivity]
       /\ IF timeSinceLastActivity > InactivityTimeout
            THEN \E cleanupRejects \in BOOLEAN :
                   serverProcess' = shutdown(cleanupRejects)
            ELSE serverProcess' = serverProcess
  /\ UNCHANGED <<variant, appVariant, now, loginFile, tempFile, bidsFile, contextFiles, dataBidsFile, lastActivityTimestamp, browser, batch, retryRun, calls>>

\* process.on('SIGTERM', ...): the same shutdown, whatever the time since
\* the last request
Sigterm ==
  /\ serverProcess.running
  /\ last' = [Blank EXCEPT !.op = "SIGTERM", !.idle = now - lastActivityTimestamp]
  /\ \E cleanupRejects \in BOOLEAN :
       serverProcess' = shutdown(cleanupRejects)
  /\ UNCHANGED <<variant, appVariant, now, loginFile, tempFile, bidsFile, contextFiles, dataBidsFile, lastActivityTimestamp, browser, batch, retryRun, calls>>

\* time passes on the idle server
IdleTick ==
  /\ serverProcess.running
  /\ now < MaxUptime
  /\ now' = now + 1
  /\ last' = Blank
  /\ UNCHANGED <<variant, appVariant, loginFile, tempFile, bidsFile, contextFiles, dataBidsFile, lastActivityTimestamp, serverProcess, browser, batch, retryRun, calls>>

SpecInactivity ==
  InitInactivity /\ [][IdleTick \/ Request \/ InactivityCheck \/ Sigterm]_vars

\* ----------------------------------------------------- claims: placeBid
\* the ledger records of product URL u
RecordsFor(u) == {i \in 1..Len(bidsFile.bids) : bidsFile.bids[i].productUrl = u}

\* the URL carries a marker some copy of placeBid takes for completion
HasCompletionMarker(u) ==
  includes(u, MarkBidComplete) \/ includes(u, MarkComplete) \/ includes(u, MarkBidConfirm)

\* C1: for a product URL that matches no auction-id pattern, placeBid ends
\* in a failure with the 'invalid URL' error and navigates nowhere (no
\* product page, no bid page, no login refresh).
C1_InvalidUrlFailsWithoutNavigation ==
  (last.op = "placeBid" /\ auctionIdMatchOrQuery(last.url) = "")
    => /\ ~last.success /\ ~last.threw
       /\ last.error = "Invalid product URL format"
       /\ last.navs = <<>>

\* C2: after placeBid returned success:true for URL u, the ledger holds
\* exactly one record whose productUrl is u.
C2_SuccessLeavesOneRecord ==
  (last.op = "placeBid" /\ last.success) => Cardinality(RecordsFor(last.url)) = 1

\* C3: placeBid returns success:true only if the submit control was
\* activated in that call and the URL observed after the resulting
\* navigation contains the completion marker.
C3_SuccessOnlyAfterSubmitAndMarker ==
  (last.op = "placeBid" /\ last.success)
    => (last.submits >= 1 /\ HasCompletionMarker(last.landed))

\* C4: one placeBid call activates the submit control at most once.
C4_SubmitAtMostOnce ==
  last.op = "placeBid" => last.submits <= 1

\* ------------------------------------------------------- claims: search
\* C8: scrapeSearchResults never throws, whatever fails (setup, navigation,
\* selectors, card extraction, closing the page or context in the cleanup
\* block): it resolves with a result.
C8_ScrapeNeverThrows ==
  last.op = "scrapeSearchResults" => ~last.threw

\* C9: when the no-results marker is on the loaded page, on any page number,
\* scrapeSearchResults returns exactly {products: [], totalProducts: 0,
\* currentPage: page}, does not wait for listing cards and propagates no
\* exception.
C9_NoResultsMarkerGivesEmptyResult ==
  (last.op = "scrapeSearchResults" /\ last.noResults)
    => /\ ~last.threw
       /\ last.products = <<>> /\ last.totalProducts = 0
       /\ last.currentPage = last.page
       /\ ~last.waited

\* C10: POST /load-more with a searchContextId for which no context file
\* exists (never created, or removed by the sweep) answers 404 with
\* success:false, scrapes nothing and creates no context file.
C10_UnknownContextIs404 ==
  (last.op = "loadMore" /\ ~last.found)
    => /\ last.status = 404 /\ ~last.success
       /\ last.scrapes = 0
       /\ ~fileExists(contextFiles, last.ctxId)

\* C11: when cleanupSearchContexts has run, every context file older than
\* the TTL is gone and every younger one is still there with its content,
\* for every file of the directory, also when a file cannot be inspected.
C11_SweepRemovesOldKeepsYoung ==
  \* a sweep that returns has left no file that was old when it began
  /\ [][\A q \in Requests :
           (calls[q].op = "cleanup" /\ calls[q].pc = "swept" /\ last'.op = "cleanup") =>
             \A id \in DOMAIN contextFiles :
               contextFiles'[id].exists
                 => calls[q].args.at - contextFiles'[id].mtime <= ContextTtl]_vars
  \* and no step removes a file that is young or changes one that stays
  /\ [][last'.op # "write" =>
          \A id \in DOMAIN contextFiles :
            contextFiles[id].exists =>
              IF contextFiles'[id].exists
                THEN contextFiles'[id] = contextFiles[id]
                ELSE now - contextFiles[id].mtime > ContextTtl]_vars

\* C12: every product scrapeSearchResults returns has a price and a time
\* remaining that are strings; when no candidate selector yields text they
\* are exactly 'Price Not Available' and 'Time Not Available', so neither
\* is ever the empty string.
C12_SentinelWhenNoText ==
  last.op = "scrapeSearchResults" =>
    \A i \in 1..Len(last.products) :
      /\ last.products[i].price # <<>>
      /\ last.products[i].time_remaining # <<>>

\* ------------------------------------------------------ claims: session
\* C5: a two-factor code that is not exactly 6 characters makes
\* submitTwoFactorCode fail without any page navigation before the failure.
C5_BadCodeFailsBeforeNavigation ==
  (last.op = "submitTwoFactorCode" /\ Len(last.code) # TwoFactorCodeLength)
    => (last.threw /\ last.navs = <<>>)

\* C6: checkLoginState never throws; it returns false when login.json is
\* missing, unparsable, has no cookie list or lacks a required cookie name;
\* and the call leaves both session files as they were.
LacksRequiredCookie(f) ==
  \/ f.kind \in {"missing", "malformed", "nocookies"}
  \/ \E n \in requiredCookies : \A c \in f.cookies : c.name # n

C6_NeverThrowsFalseOnBadFile ==
  last.op = "checkLoginState"
    => /\ ~last.threw
       /\ LacksRequiredCookie(loginFile) => ~last.success

C6_CheckLoginState ==
  /\ []C6_NeverThrowsFalseOnBadFile
  /\ [][last'.op = "checkLoginState"
          => (loginFile' = loginFile /\ tempFile' = tempFile)]_vars

\* a session that has two of the three required cookies was checked
C6_Witness ==
  /\ last.op = "checkLoginState"
  /\ ~last.success
  /\ loginFile.kind = "session"
  /\ Cardinality({c.name : c \in loginFile.cookies} \cap requiredCookies) = 2

\* C7: checkLoginState returns true only if each required cookie is present
\* and its expiry time is not in the past.
C7_TrueOnlyIfUnexpired ==
  (last.op = "checkLoginState" /\ last.success)
    => \A n \in requiredCookies :
         \E c \in loginFile.cookies : c.name = n /\ c.expires >= now

\* C13: a login call that does not throw has one of two outcomes.  On the
\* two-factor challenge it saved the temporary session, returns
\* requiresTwoFactor and no durable session exists; anywhere else it saved
\* the durable session and returns success.  No call writes both files.
\* The session files are compared for a call during which no other call was
\* in progress.
C13_Login ==
  (last.op = "login" /\ ~last.threw) =>
    /\ IF includes(last.landed, TwoFactorUrl)
       THEN /\ last.requiresTwoFactor /\ ~last.success
            /\ last.alone => (tempFile.kind = "session" /\ loginFile.kind # "session")
       ELSE /\ last.success /\ ~last.requiresTwoFactor
            /\ last.alone => loginFile.kind = "session"
    /\ last.alone =>
         \/ tempFile = last.tempAtCall
         \/ loginFile \in {MissingFile, last.loginAtCall}

\* C14: when submitTwoFactorCode returns success the durable session exists
\* and the temporary one is gone; when it fails, for whatever reason, the
\* temporary session is still there and the durable one is as it was.
\* The session files are compared for a call during which no other call was
\* in progress.
C14_TwoFactorFrame ==
  (last.op = "submitTwoFactorCode" /\ last.alone) =>
    IF last.success
    THEN loginFile.kind = "session" /\ tempFile = MissingFile
    ELSE tempFile = last.tempAtCall /\ loginFile = last.loginAtCall

\* C15: submitTwoFactorCode called while no temporary session is saved fails
\* with the 'No temporary login state found' error, navigates nowhere and
\* writes no session file.
C15_NoTempStateFails ==
  (/\ last.op = "submitTwoFactorCode" /\ last.alone
   /\ last.tempAtCall = MissingFile) =>
    /\ last.threw /\ ~last.success
    /\ last.error = "No temporary login state found. Please log in again."
    /\ last.navs = <<>>
    /\ loginFile = last.loginAtCall /\ tempFile = last.tempAtCall

\* C16: a load-more fetches page currentPage+1 of the current term; when
\* that page has no products and a later term exists it also fetches page 1
\* of the next term and the saved cursor becomes (currentTermIndex+1, 1);
\* otherwise the saved term index stays as it was.
C16_LoadMoreCursor ==
  [][\A q \in Requests :
      (/\ calls[q].op = "loadMore" /\ InProgress(q) /\ ~InProgress(q)'
       /\ last'.op = "loadMore" /\ last'.fetched # <<>>) =>
       LET c == calls[q].loc.ctx
           d == contextFiles'[last'.ctxId]
           f == last'.fetched
       IN /\ f[1].term = c.currentTermIndex /\ f[1].page = c.currentPage + 1
          /\ IF /\ ~f[1].threw /\ f[1].count = 0
                /\ c.currentTermIndex + 1 < Len(c.terms)
             THEN /\ Len(f) = 2
                  /\ f[2].term = c.currentTermIndex + 1 /\ f[2].page = 1
                  /\ last'.success =>
                       /\ d.currentTermIndex = c.currentTermIndex + 1
                       /\ d.currentPage = 1
             ELSE /\ Len(f) = 1
                  /\ d.currentTermIndex = c.currentTermIndex]_vars

\* C17: once a context has accumulated as many products as the total the
\* first page reported, a further load-more fetches nothing and adds no
\* product.
C17_StopsAtTotal ==
  [][\A q \in Requests :
      (/\ calls[q].op = "loadMore" /\ calls[q].pc = "scraping"
       /\ last'.op = "loadMore" /\ last'.found
       /\ calls[q].loc.ctx.totalResults > 0
       /\ Len(calls[q].loc.ctx.results) >= calls[q].loc.ctx.totalResults) =>
        /\ last'.scrapes = 0
        /\ contextFiles'[last'.ctxId].results = calls[q].loc.ctx.results]_vars

\* C18: the saved cursor names the last page fetched with products: the
\* term index is always a valid index into terms, and a load-more whose
\* fetch has no products, with no further term to go to, leaves the saved
\* cursor as it was.
C18_CursorAtLastGoodPage ==
  /\ [](\A id \in DOMAIN contextFiles :
          contextFiles[id].exists =>
            contextFiles[id].currentTermIndex < Len(contextFiles[id].terms))
  /\ [][\A q \in Requests :
         (/\ calls[q].op = "loadMore" /\ calls[q].pc = "scraping"
          /\ last'.op = "loadMore" /\ Len(last'.fetched) = 1
          /\ ~last'.fetched[1].threw /\ last'.fetched[1].count = 0) =>
           LET c == calls[q].loc.ctx
               d == contextFiles'[last'.ctxId]
           IN /\ d.currentTermIndex = c.currentTermIndex
              /\ d.currentPage = c.currentPage]_vars

\* C19, as stated: POST /update-bid-prices with a list of N product URLs
\* answers with exactly N entries in input order and count = N, for every
\* N.
C19_AnswersEveryList ==
  (last.op = "updateBidPrices" /\ last.isArray) =>
    /\ last.hasList
    /\ Len(last.products) = Len(last.urls)
    /\ last.totalProducts = Len(last.urls)
    /\ \A i \in 1..Len(last.urls) : last.products[i].productUrl = last.urls[i]

\* C19, amended: POST /update-bid-prices with N >= 1 product URLs answers
\* 200 with exactly N entries in input order and count = N; a URL whose
\* refresh fails gives an entry of its own and the URLs after it are still
\* done.  An empty list is answered 400 with neither entries nor count.
C19_BatchAnswersEveryUrl ==
  (last.op = "updateBidPrices" /\ last.isArray) =>
    IF Len(last.urls) >= 1
    THEN /\ last.status = 200 /\ last.success /\ last.hasList
         /\ Len(last.products) = Len(last.urls)
         /\ last.totalProducts = Len(last.urls)
         /\ \A i \in 1..Len(last.urls) : last.products[i].productUrl = last.urls[i]
    ELSE /\ last.status = 400 /\ ~last.success /\ ~last.hasList
         /\ last.products = <<>>

\* a batch of two whose first URL failed and whose second was refreshed
C19_Witness ==
  /\ last.op = "updateBidPrices" /\ last.isArray /\ last.hasList
  /\ Len(last.urls) = 2 /\ Len(last.products) = 2
  /\ last.products[1].failed
  /\ ~last.products[2].failed /\ last.products[2].price = <<"x">>

\* C20: placeBid goes to the product page only when login.json passes
\* checkLoginState at that moment, and refreshes the login session at most
\* once in a call.
C20_NoProductPageWithoutValidSession ==
  last.op = "placeBid" =>
    /\ (\E i \in 1..Len(last.navs) : last.navs[i] = "product")
         => checkLoginState(loginFile).ret
    /\ Cardinality({i \in 1..Len(last.navs) : last.navs[i] = "login"}) <= 1

\* C21: whatever fails once the browser is launched, placeBid resolves with
\* a structured failure and does not throw to its caller.
C21_PlaceBidNeverThrows ==
  last.op = "placeBid" => ~last.threw

\* C22: POST /place-bid answers 400 with success false when productId is
\* missing or no auction URL, or amount is missing, non-numeric, zero or
\* negative; with such an amount placeBid is not invoked.
C22_BadBidRequestIs400 ==
  last.op = "POST /place-bid" =>
    LET badUrl == last.url = NoProductId \/ auctionIdMatchOrQuery(last.url) = ""
        badAmount == toNumber(last.amount).t = "NaN" \/ toNumber(last.amount).n <= 0
    IN /\ (badUrl \/ badAmount) => (last.status = 400 /\ ~last.success)
       /\ badAmount => ~last.invoked

\* C23: POST /login-two-factor with a code of the wrong length is answered
\* with a 4xx status, success false and a message, after at most one submission.
C23_WrongLengthCodeIs4xx ==
  (last.op = "POST /login-two-factor" /\ Len(last.code) # TwoFactorCodeLength) =>
    /\ last.status \in 400..499
    /\ ~last.success
    /\ last.error # ""
    /\ Len(last.navs) <= 1

\* C24: once placeBid has upserted a record for a URL, GET /bids answers a
\* list holding a record for that URL with the amount last placed.
C24_LedgerRoundTrip ==
  [][(last.op = "POST /place-bid" /\ last.success /\ last'.op = "GET /bids")
       => \E i \in 1..Len(last'.bids) :
            /\ last'.bids[i].productUrl = last.url
            /\ last'.bids[i].bidAmount = last.amount]_vars

\* C25: POST /details with a non-empty list of URLs answers success with one
\* updatedDetails entry per requested URL, each carrying its productUrl.
C25_DetailsAnswersEveryUrl ==
  (last.op = "POST /details" /\ Len(last.urls) >= 1) =>
    /\ last.success
    /\ Len(last.products) = Len(last.urls)
    /\ \A i \in 1..Len(last.urls) : last.products[i].productUrl = last.urls[i]

\* C26: when updateBid (one of the orchestrator operations) has returned or
\* thrown, every browser context and page it opened is closed.
C26_NothingLeftOpen ==
  last.op = "updateBid" => (last.openContexts = 0 /\ last.openPages = 0)

\* C27: when the URL observed after the navigation towards the bid form is
\* the login page or no bid-form URL, placeBid fails, fills no amount and
\* activates no submit control.
C27_NoFormNoBid ==
  (/\ last.op = "placeBid"
   /\ last.bidLanding # <<>>
   /\ (includes(last.bidLanding, MarkLogin) \/ ~includes(last.bidLanding, MarkBid)))
    => (~last.success /\ ~last.filled /\ last.submits = 0)

\* C28: when login.json holds a session, the context setupBrowser builds
\* carries the cookies of that session (not those of a left-over
\* temp_login.json).
C28_ContextUsesDurableSession ==
  (last.op = "setupBrowser" /\ last.alone /\ ~last.threw
     /\ loginFile.kind = "session") =>
    {c.name : c \in last.cookies} = {c.name : c \in loginFile.cookies}

\* C29: with login.json missing, unparsable or without cookies, placeBid
\* fails without going to the product page or the bid page, while
\* setupBrowser in the same situation gives a context without cookies.
C29_NoSessionNoBidNavigation ==
  LET noSession == \/ loginFile.kind \in {"missing", "malformed", "nocookies"}
                   \/ (loginFile.kind = "session" /\ loginFile.cookies = {})
  IN /\ (last.op = "placeBid" /\ noSession) =>
          /\ ~last.success
          /\ \A i \in 1..Len(last.navs) : last.navs[i] \notin {"product", "bid"}
     /\ (last.op = "setupBrowser" /\ noSession /\ tempFile.kind = "missing"
           /\ ~last.threw) => last.cookies = {}

\* C30: a periodic check starts a shutdown only when it finds more than the
\* inactivity window since the last request, such a check always starts
\* one, and the shutdown closes the browser, then stops the server, then
\* exits with status 0.
C30_IdleShutdownIsOrderly ==
  /\ []((~serverProcess.running /\ last.op = "inactivityCheck") =>
          /\ serverProcess.steps = <<"closeBrowser", "closeServer">>
          /\ serverProcess.exitCode = 0)
  /\ [][/\ (serverProcess.running /\ ~serverProcess'.running
                /\ last'.op = "inactivityCheck")
              => now - lastActivityTimestamp > InactivityTimeout
        /\ (last'.op = "inactivityCheck" /\ last'.idle > InactivityTimeout)
              => ~serverProcess'.running]_vars

\* C31: a context file older than the TTL is eventually deleted, also when
\* no /search or /load-more request arrives any more.
C31_StaleFileEventuallyDeleted ==
  \A id \in SweepIds :
    (contextFiles[id].exists /\ now - contextFiles[id].mtime > ContextTtl)
      ~> ~contextFiles[id].exists

\* C32: the orchestrator never has more than one browser process running: an
\* operation that launches a browser has closed the one it held before.
C32_AtMostOneBrowser == ~last.orphaned

\* C33: however concurrent /load-more requests on one context interleave,
\* no (term, page) is fetched by two of them, and the products of every
\* request answered with success are in the persisted context.
C33_ConcurrentLoadMoreIsSerial ==
  /\ \A a \in Requests : \A b \in Requests \ {a} :
       (/\ calls[a].pc = "done" /\ calls[a].loc.status = 200
        /\ calls[b].pc = "done" /\ calls[b].loc.status = 200) =>
       \A i \in DOMAIN calls[a].loc.fetched, j \in DOMAIN calls[b].loc.fetched :
          <<calls[a].loc.fetched[i].term, calls[a].loc.fetched[i].page>>
            # <<calls[b].loc.fetched[j].term, calls[b].loc.fetched[j].page>>
  /\ \A q \in Requests :
       calls[q].pc = "done" /\ calls[q].loc.status = 200 =>
         \A id \in ContextIds :
           \A i \in DOMAIN calls[q].loc.products :
             \E j \in DOMAIN contextFiles[id].results :
               contextFiles[id].results[j] = calls[q].loc.products[i]

\* C34: within one /update-bid-prices batch at most one refresh is in
\* flight, and each refresh after the first starts only when the one before
\* it has settled and the full delay has passed since.
C34_RefreshesAreSpaced ==
  \A q \in Requests :
    /\ batch[q].inFlight <= 1
    /\ \A k \in DOMAIN batch[q].gaps : batch[q].gaps[k] >= RateLimitDelay

\* the second refresh of a batch is in flight
C34_Witness ==
  \E q \in Requests :
    batch[q].pc = "refreshing" /\ batch[q].i = 2 /\ Len(batch[q].gaps) = 1

\* C35: scrapeSearchResults, updateBid and checkLoginState leave the durable
\* and the temporary session file as they are and do not go to the login page
\* (they invoke neither login nor refreshLoginSession).
\* Every step of one of the three is meant, from its first to its last.
ReadOnlyOps == {"scrapeSearchResults", "updateBid"}
C35_ReadOnlyOperations ==
  [][(\/ last'.op = "checkLoginState"
      \/ \E q \in Requests :
           /\ calls'[q].pc # calls[q].pc
           /\ \/ InProgress(q) /\ calls[q].op \in ReadOnlyOps
              \/ InProgress(q)' /\ calls'[q].op \in ReadOnlyOps) =>
       /\ loginFile' = loginFile
       /\ tempFile' = tempFile
       /\ \A i \in DOMAIN last'.navs : last'.navs[i] # "login"]_vars

\* updateBid has run while a temporary session file was stored
C35_Witness == last.op = "updateBid" /\ tempFile.kind = "session"

\* C36: on page 1, when the result-count element is absent or its text
\* cannot be parsed, the result's totalProducts is 0, also when cards were
\* found.
C36_NoCountMeansZeroTotal ==
  last.op = "scrapeSearchResults" /\ last.page = 1 /\ ~last.hasCount
    => last.totalProducts = 0

\* C37: login deletes the durable session before it authenticates: while a
\* login is in progress an operation finds no valid durable session, and
\* after a login that threw or ended on the two-factor challenge
\* checkLoginState returns false, also when the session was valid before.
C37_LoginClearsDurableFirst ==
  /\ \A q \in Requests :
       (/\ calls[q].op = "login" /\ calls[q].alone
        /\ calls[q].pc \in {"login launching", "login authenticating"})
         => ~checkLoginState(loginFile).ret
  /\ (last.op = "checkLoginState"
        /\ \E q \in Requests :
             /\ calls[q].op = "login" /\ calls[q].alone
             /\ calls[q].pc \in {"login launching", "login authenticating"})
       => ~last.success
  /\ (last.op = "login" /\ last.alone /\ (last.threw \/ last.requiresTwoFactor))
       => ~checkLoginState(loginFile).ret

\* C38: every /load-more request sends exactly one response: when releasing
\* the request's scraper fails after the success response, the error handler
\* does not attempt a second one.
C38_OneResponsePerLoadMore ==
  last.op = "loadMore" => last.responses = 1

\* C39: the ledger upsert of placeBid is not interrupted by another handler:
\* when two concurrent bids on different URLs have both succeeded, the
\* ledger holds a record for each of them.
C39_NoLostLedgerUpdate ==
  \A a \in Requests : \A b \in Requests \ {a} :
    (/\ calls[a].pc = "done" /\ calls[a].loc.success
     /\ calls[b].pc = "done" /\ calls[b].loc.success
     /\ calls[a].args.url # calls[b].args.url)
      => \A q \in {a, b} :
           \E i \in DOMAIN bidsFile.bids :
             bidsFile.bids[i].productUrl = calls[q].args.url

\* two bids that overlapped in time have both succeeded, on different URLs
C39_Witness ==
  /\ \A q \in Requests : calls[q].pc = "done" /\ calls[q].loc.success
  /\ calls["r1"].args.url # calls["r2"].args.url
  /\ calls["r1"].loc.ledgerAtCall = calls["r2"].loc.ledgerAtCall
  /\ Len(bidsFile.bids) = 2

\* C40: retry(fn, n) with n >= 1 invokes fn at most n times, returns the
\* value of the first invocation that succeeds and invokes fn no more, waits
\* only between a failed attempt and the next one, rethrows the error of the
\* n-th attempt after n failures, and terminates when fn does.
C40_RetryShape ==
  LET r == retryRun
      invocations == Len(r.outs)
      failed == {k \in 1..invocations : ~r.outs[k].ok}
  IN r.pc # "idle" =>
       /\ invocations <= r.retries
       \* nothing is invoked after a success
       /\ \A k \in 1..invocations : r.outs[k].ok => k = invocations /\ r.pc = "returned"
       /\ r.pc = "returned" =>
            /\ invocations >= 1 /\ r.outs[invocations].ok /\ r.value = r.outs[invocations].v
            /\ r.waits = invocations - 1
       /\ r.pc = "threw" =>
            /\ invocations = r.retries /\ failed = 1..r.retries
            /\ r.value = r.outs[r.retries].v
            /\ r.waits = r.retries - 1
       /\ r.pc = "calling" => r.waits = invocations /\ failed = 1..invocations
       /\ r.pc = "waiting" => r.waits = invocations /\ invocations < r.retries

C40_Retry ==
  /\ []C40_RetryShape
  /\ (retryRun.pc = "calling") ~> (retryRun.pc \in {"returned", "threw"})

\* fn failed three times in a row and retry rethrew the last error, which
\* differs from the first
C40_Witness ==
  /\ retryRun.pc = "threw" /\ retryRun.retries = 3 /\ Len(retryRun.outs) = 3
  /\ retryRun.value = 2 /\ retryRun.outs[1].v = 1

====
